---- MODULE Spec2Model ----
(***************************************************************************)
(* A model of the rules engine of 8rack-ai: the turn/phase state machine   *)
(* of GameEngine (game/engine.py), the stack of the Resolver              *)
(* (game/resolver/stack.py), the Tier-1 handlers (game/resolver/tier1.py), *)
(* the state-based-action checker (game/state.py) and the trigger registry *)
(* (game/triggers.py).                                                     *)
(*                                                                         *)
(* Players are 1 and 2 (the code's indices 0 and 1, ids "p1" and "p2").    *)
(* The two agents are the environment: every decision the engine asks of   *)
(* an agent is a nondeterministic choice.                                  *)
(***************************************************************************)
EXTENDS Integers, Sequences, FiniteSets, TLC

\* ---------------------------------------------------------------------------
\* Program constants
\* ---------------------------------------------------------------------------

\* engine.py:21  MAX_TURNS = 50
MAX_TURNS == 50

\* engine.py:292  max_actions = 200 (per priority loop)
max_actions == 200

\* engine.py:408  for _ in range(20) in _declare_blockers
max_block_rounds == 20

\* tier1.py:82  max_hand_size = 7
max_hand_size == 7

\* ---------------------------------------------------------------------------
\* Bounds of the model
\* ---------------------------------------------------------------------------

\* How many actions that name a card the player does not have (and so fail
\* with "Card not found") the agents may return in one game of Spec.
MaxJunk == 1

\* How many lands the first player has on a board
MaxLands == 2

\* The most generic mana a probed cost asks for (each coloured pip: 0 or 1)
MaxGeneric == 1

\* The most a temporary shrink (m1m1_temp) on a probed creature amounts to
MaxShrink == 11

\* How many times prowess has pumped a creature on a board
MaxPump == 2

\* ---------------------------------------------------------------------------
\* Static data
\* ---------------------------------------------------------------------------

Players == {1, 2}

Other(p) == 3 - p

NoPlayer == 0

NoCard == 0

\* state.py:24-39  Phase / PHASE_ORDER
PHASE_ORDER ==
  << "untap", "upkeep", "draw", "main_1", "begin_combat", "declare_attackers",
     "declare_blockers", "combat_damage", "end_combat", "main_2", "end_step",
     "cleanup" >>

\* state.py:14-21  Zone
Zones == {"library", "hand", "battlefield", "graveyard", "exile", "stack"}

Colors == {"white", "blue", "black", "red", "green", "colorless"}

NoCost == [white |-> 0, blue |-> 0, black |-> 0, red |-> 0, green |-> 0, generic |-> 0]

NoDef ==
  [types |-> {}, cost |-> NoCost, hasCost |-> FALSE, cmc |-> 0, power |-> 0,
   toughness |-> 0, keywords |-> {}, legendary |-> FALSE, subtypes |-> {}]

\* The creatures of tests/test_engine_fixes.py that the combat boards use
EngineFixesFixtures(n) ==
  CASE n = "Dauthi Voidwalker" ->
         [NoDef EXCEPT !.types = {"creature"}, !.cost = [NoCost EXCEPT !.black = 2],
                       !.hasCost = TRUE, !.cmc = 2, !.power = 3, !.toughness = 2,
                       !.keywords = {"Menace"}]
    [] n = "Llanowar Elves" ->
         [NoDef EXCEPT !.types = {"creature"}, !.cost = [NoCost EXCEPT !.green = 1],
                       !.hasCost = TRUE, !.cmc = 1, !.power = 1, !.toughness = 1]
    [] OTHER -> NoDef

\* The fixtures of tests/test_rules_engine.py that the boards use
RulesEngineFixtures(n) ==
  CASE n = "Boros Elite" ->
         [NoDef EXCEPT !.types = {"creature"}, !.cost = [NoCost EXCEPT !.white = 1],
                       !.hasCost = TRUE, !.cmc = 1, !.power = 3, !.toughness = 1,
                       !.keywords = {"First Strike"}]
    [] n = "Fencing Ace" ->
         [NoDef EXCEPT !.types = {"creature"},
                       !.cost = [NoCost EXCEPT !.white = 1, !.generic = 1],
                       !.hasCost = TRUE, !.cmc = 2, !.power = 1, !.toughness = 1,
                       !.keywords = {"Double Strike"}]
    [] n = "Colossal Dreadmaw" ->
         [NoDef EXCEPT !.types = {"creature"},
                       !.cost = [NoCost EXCEPT !.green = 2, !.generic = 4],
                       !.hasCost = TRUE, !.cmc = 6, !.power = 6, !.toughness = 6,
                       !.keywords = {"Trample"}]
    [] n = "Gifted Aetherborn" ->
         [NoDef EXCEPT !.types = {"creature"}, !.cost = [NoCost EXCEPT !.black = 2],
                       !.hasCost = TRUE, !.cmc = 2, !.power = 2, !.toughness = 3,
                       !.keywords = {"Deathtouch", "Lifelink"}]
    [] n = "Fatal Push" ->
         [NoDef EXCEPT !.types = {"instant"}, !.cost = [NoCost EXCEPT !.black = 1],
                       !.hasCost = TRUE, !.cmc = 1]
    [] n = "Blood Crypt" -> [NoDef EXCEPT !.types = {"land"}]
    [] OTHER -> EngineFixesFixtures(n)

\* The fixtures of tests/test_rules_gaps.py that the boards use
RulesGapFixtures(n) ==
  CASE n = "Mishra's Factory" -> [NoDef EXCEPT !.types = {"land"}]
    [] n = "Sacred Foundry" -> [NoDef EXCEPT !.types = {"land"}]
    [] n = "Urborg, Tomb of Yawgmoth" ->
         [NoDef EXCEPT !.types = {"land"}, !.legendary = TRUE]
    [] n = "Blood Moon" ->
         [NoDef EXCEPT !.types = {"enchantment"},
                       !.cost = [NoCost EXCEPT !.red = 1, !.generic = 2],
                       !.hasCost = TRUE, !.cmc = 3]
    [] n = "Darksteel Colossus" ->
         [NoDef EXCEPT !.types = {"artifact", "creature"},
                       !.cost = [NoCost EXCEPT !.generic = 11],
                       !.hasCost = TRUE, !.cmc = 11, !.power = 11, !.toughness = 11,
                       !.keywords = {"Trample", "Indestructible"}]
    [] n = "Leyline of the Void" ->
         [NoDef EXCEPT !.types = {"enchantment"},
                       !.cost = [NoCost EXCEPT !.black = 2, !.generic = 2],
                       !.hasCost = TRUE, !.cmc = 4]
    [] n = "Ensnaring Bridge" ->
         [NoDef EXCEPT !.types = {"artifact"}, !.cost = [NoCost EXCEPT !.generic = 3],
                       !.hasCost = TRUE, !.cmc = 3]
    [] n = "Solitude" ->
         [NoDef EXCEPT !.types = {"creature"},
                       !.cost = [NoCost EXCEPT !.white = 2, !.generic = 3],
                       !.hasCost = TRUE, !.cmc = 5, !.power = 3, !.toughness = 2,
                       !.keywords = {"Flash", "Lifelink"}]
    [] OTHER -> RulesEngineFixtures(n)

\* The card definitions (cards/models.py CardDefinition) of the cards the
\* scenarios use, as the repository's test fixtures give them.
CardDef(n) ==
  CASE n = "Mountain" -> [NoDef EXCEPT !.types = {"land"}]
    [] n = "Swamp" -> [NoDef EXCEPT !.types = {"land"}]
    [] n = "Plains" -> [NoDef EXCEPT !.types = {"land"}]
    [] n = "Bloodstained Mire" -> [NoDef EXCEPT !.types = {"land"}]
    [] n = "Lightning Bolt" ->
         [NoDef EXCEPT !.types = {"instant"}, !.cost = [NoCost EXCEPT !.red = 1],
                       !.hasCost = TRUE, !.cmc = 1]
    [] n = "Thoughtseize" ->
         [NoDef EXCEPT !.types = {"sorcery"}, !.cost = [NoCost EXCEPT !.black = 1],
                       !.hasCost = TRUE, !.cmc = 1]
    [] n = "Grizzly Bears" ->
         [NoDef EXCEPT !.types = {"creature"},
                       !.cost = [NoCost EXCEPT !.green = 1, !.generic = 1],
                       !.hasCost = TRUE, !.cmc = 2, !.power = 2, !.toughness = 2]
    [] n = "Monastery Swiftspear" ->
         [NoDef EXCEPT !.types = {"creature"}, !.cost = [NoCost EXCEPT !.red = 1],
                       !.hasCost = TRUE, !.cmc = 1, !.power = 1, !.toughness = 2,
                       !.keywords = {"Haste", "Prowess"}]
    [] n = "Aven Mindcensor" ->
         [NoDef EXCEPT !.types = {"creature"},
                       !.cost = [NoCost EXCEPT !.white = 1, !.generic = 2],
                       !.hasCost = TRUE, !.cmc = 3, !.power = 2, !.toughness = 1,
                       !.keywords = {"Flash", "Flying"}]
    [] n = "The Rack" ->
         [NoDef EXCEPT !.types = {"artifact"}, !.cost = [NoCost EXCEPT !.generic = 1],
                       !.hasCost = TRUE, !.cmc = 1]
    [] n = "Urza's Saga" ->
         [NoDef EXCEPT !.types = {"enchantment", "land"}, !.subtypes = {"Urza's", "Saga"}]
    [] OTHER -> RulesGapFixtures(n)

\* cards/models.py:49-75
is_creature(n) == "creature" \in CardDef(n).types
is_land(n) == "land" \in CardDef(n).types
is_instant(n) == "instant" \in CardDef(n).types
is_sorcery(n) == "sorcery" \in CardDef(n).types
is_planeswalker(n) == "planeswalker" \in CardDef(n).types
is_artifact(n) == "artifact" \in CardDef(n).types
is_enchantment(n) == "enchantment" \in CardDef(n).types

\* cards/models.py:81-83
is_saga(n) == "Saga" \in CardDef(n).subtypes
is_legendary(n) == CardDef(n).legendary

\* tier1.py:210-215  _has_keyword (no fixture's oracle text names a keyword)
has_keyword(n, kw) == kw \in CardDef(n).keywords

\* resolver/helpers.py:32-43  FETCH_TARGETS
FETCH_TARGETS(n) ==
  CASE n = "Bloodstained Mire" -> {"Swamp", "Mountain"}
    [] OTHER -> {}

\* resolver/helpers.py:46-52  BASIC_TYPE_LANDS, for the basic types a scenario's
\* fetch land names
BASIC_TYPE_LANDS(t) ==
  CASE t = "Swamp" -> {"Swamp", "Blood Crypt", "Overgrown Tomb", "Watery Grave", "Godless Shrine"}
    [] t = "Mountain" -> {"Mountain", "Sacred Foundry", "Steam Vents", "Blood Crypt", "Stomping Ground"}
    [] OTHER -> {}

\* resolver/helpers.py:55-66  the names DUAL_LAND_COLORS lists
IsDual(n) == n \in {"Sacred Foundry", "Hallowed Fountain", "Steam Vents", "Blood Crypt",
                    "Overgrown Tomb", "Stomping Ground", "Temple Garden", "Watery Grave",
                    "Godless Shrine", "Breeding Pool"}

\* helpers.py:143-151  EVOKE_COSTS: the evoke cost of the names that have one
\* (NoCost: the name is not in the table)
EVOKE_COSTS(n) ==
  CASE n = "Solitude" -> [NoCost EXCEPT !.white = 1]
    [] n = "Endurance" -> [NoCost EXCEPT !.green = 1]
    [] n = "Grief" -> [NoCost EXCEPT !.black = 1]
    [] n = "Fury" -> [NoCost EXCEPT !.red = 2]
    [] n = "Subtlety" -> [NoCost EXCEPT !.blue = 2]
    [] OTHER -> NoCost

\* The names that have a Tier-2 template (core.py:31-35 and the three
\* _register_*_templates), among the names the scenarios use.
HasTemplate(n) == n \in {"The Rack", "Thoughtseize", "Lightning Bolt", "Fatal Push"}

\* ---------------------------------------------------------------------------
\* Sequences helpers
\* ---------------------------------------------------------------------------

Min(S) == CHOOSE x \in S : \A y \in S : x <= y

Max(S) == CHOOSE x \in S : \A y \in S : x >= y

\* The members of a set of positive numbers in increasing order
SortedSeq(S) ==
  IF S = {} THEN << >>
  ELSE SelectSeq([i \in 1..Max(S) |-> i], LAMBDA x : x \in S)

Range(s) == { s[i] : i \in 1..Len(s) }

\* A faulty pop that takes the bottom of the stack away (first in, first out)
PopBottom(s) == Tail(s)

\* state.py:250 and stack.py:78  what state.stack.pop() leaves, and what it returns
Front(s) == SubSeq(s, 1, Len(s) - 1)

Top(s) == s[Len(s)]

IsPrefix(s, t) == Len(s) <= Len(t) /\ SubSeq(t, 1, Len(s)) = s

\* ---------------------------------------------------------------------------
\* State
\* ---------------------------------------------------------------------------

VARIABLES
  players,               \* state.py:142-154 PlayerState: life, has_lost, land drops, mana pool
  cards,                 \* state.py:44-57 CardInstance, by card id; PlayerState.cards is a
                         \* player's owned cards in id order
  stack,                 \* state.py:250 GameState.stack, bottom first
  combat,                \* state.py:235-239 CombatState
  turn_number,           \* state.py:249
  active_player_index,   \* state.py:246
  priority_player_index, \* state.py:247
  phase,                 \* state.py:248
  spells_cast_this_turn, \* state.py:252
  game_over,             \* state.py:253
  winner,                \* state.py:254 (NoPlayer: None)
  trigger_registry,      \* core.py:28 Resolver._trigger_registry is set
  pc,                    \* where the engine is: "run_game", "phase", "priority",
                         \* "attackers", "blockers", "done"
  phase_i,               \* engine.py:197 index into PHASE_ORDER of the for loop
  consecutive_passes,    \* engine.py:291
  loop_i,                \* engine.py:294 iterations of the priority loop begun
  decl_i,                \* engine.py:377 / 408 iterations of a declaration loop begun
  decl_n,                \* engine.py:377 len(attack_actions) + 1
  next_id,               \* the next fresh StackItem id (state.py:222)
  junk_used,             \* failing agent actions so far
  junk_limit,            \* how many the agents may return (-1: any number)
  mulligans,             \* engine.py:131 the mulligans the player being dealt has taken
  setup_i,               \* engine.py:130 the seat setup_game is dealing to
  last                   \* what the last step did (history)

vars ==
  << players, cards, stack, combat, turn_number, active_player_index,
     priority_player_index, phase, spells_cast_this_turn, game_over, winner,
     trigger_registry, pc, phase_i, consecutive_passes, loop_i, decl_i, decl_n,
     next_id, junk_used, junk_limit, mulligans, setup_i, last >>

CardIds == DOMAIN cards

\* state.py:156-158  PlayerState.zone (a player's cards are the ones it owns)
ZoneOf(p, z) == { c \in CardIds : cards[c].owner = p /\ cards[c].zone = z }

\* state.py:160-178
hand(p) == ZoneOf(p, "hand")
library(p) == ZoneOf(p, "library")
battlefield(p) == ZoneOf(p, "battlefield")
graveyard(p) == ZoneOf(p, "graveyard")
hand_size(p) == Cardinality(hand(p))

\* state.py:186-198  the card PlayerState.draw takes: the top of the library
library_top(p) == Min(library(p))

\* state.py:54  the named counters a card may carry
NoCounters ==
  [p1p1 |-> 0, m1m1_temp |-> 0, pump_power_temp |-> 0, pump_toughness_temp |-> 0,
   deathtouch_damage |-> 0, animated |-> 0, lore |-> 0]

\* state.py:44-57  a CardInstance fresh from construction
NewCard(n, o, z) ==
  [name |-> n, owner |-> o, controller |-> o, zone |-> z, tapped |-> FALSE,
   sick |-> FALSE, damage_marked |-> 0, counters |-> NoCounters]

\* state.py:68-79  ManaPool
EmptyPool == [c \in Colors |-> 0]

\* state.py:142-154  a PlayerState fresh from construction
NewPlayer(l) ==
  [life |-> l, has_lost |-> FALSE, land_drops_remaining |-> 1,
   land_drops_per_turn |-> 1, mana_pool |-> EmptyPool]

\* state.py:235-239
NoCombat == [attackers |-> << >>, blockers |-> << >>]

\* A target of an action or stack item (actions.py:32): a card id, or "player:<id>"
CardTarget(c) == [kind |-> "card", id |-> c]
PlayerTarget(p) == [kind |-> "player", id |-> p]

\* ---------------------------------------------------------------------------
\* Effective power and toughness (resolver/helpers.py)
\* ---------------------------------------------------------------------------

\* helpers.py:154-161  a creature by definition, or by animation
_is_creature(c) == is_creature(cards[c].name) \/ cards[c].counters.animated > 0

\* helpers.py:166-169 / 178-181: an animated Mishra's Factory is a 2/2
AnimatedSize == 2

\* helpers.py:164-173
_effective_power(cd) ==
  (IF cd.counters.animated > 0 /\ ~is_creature(cd.name) THEN AnimatedSize
   ELSE CardDef(cd.name).power)
    + cd.counters.p1p1 - cd.counters.m1m1_temp + cd.counters.pump_power_temp

\* helpers.py:176-185
_effective_toughness(cd) ==
  (IF cd.counters.animated > 0 /\ ~is_creature(cd.name) THEN AnimatedSize
   ELSE CardDef(cd.name).toughness)
    + cd.counters.p1p1 - cd.counters.m1m1_temp + cd.counters.pump_toughness_temp

\* ---------------------------------------------------------------------------
\* Mana (resolver/tier1.py, state.py)
\* ---------------------------------------------------------------------------

blood_moon_in_play ==
  \E c \in CardIds : cards[c].name = "Blood Moon" /\ cards[c].zone = "battlefield"

urborg_in_play ==
  \E c \in CardIds : cards[c].name = "Urborg, Tomb of Yawgmoth" /\ cards[c].zone = "battlefield"

\* resolver/helpers.py:55-66
DUAL_LAND_COLORS(n) ==
  CASE n = "Sacred Foundry" -> << "white", "red" >>
    [] n = "Hallowed Fountain" -> << "white", "blue" >>
    [] n = "Steam Vents" -> << "blue", "red" >>
    [] n = "Blood Crypt" -> << "black", "red" >>
    [] n = "Overgrown Tomb" -> << "black", "green" >>
    [] n = "Stomping Ground" -> << "red", "green" >>
    [] n = "Temple Garden" -> << "white", "green" >>
    [] n = "Watery Grave" -> << "blue", "black" >>
    [] n = "Godless Shrine" -> << "white", "black" >>
    [] n = "Breeding Pool" -> << "blue", "green" >>
    [] OTHER -> << "none", "none" >>

\* tier1.py:390-455  _get_land_mana: the colour of the one mana a land makes
\* ("none": it makes no mana)
_get_land_mana(n) ==
  IF blood_moon_in_play /\ is_land(n)
     /\ n \notin {"Swamp", "Plains", "Mountain", "Island", "Forest"}
  THEN "red"
  ELSE CASE n \in {"Swamp", "Urborg, Tomb of Yawgmoth", "Castle Locthwain"} -> "black"
         [] n \in {"Mishra's Factory", "Urza's Saga"} -> "colorless"
         [] n = "Plains" -> "white"
         [] n = "Mountain" -> "red"
         [] n = "Island" -> "blue"
         [] n = "Forest" -> "green"
         [] IsDual(n) -> DUAL_LAND_COLORS(n)[1]
         [] FETCH_TARGETS(n) # {} -> "none"
         [] is_land(n) -> "colorless"
         [] OTHER -> "none"

\* tier1.py:470-473
untapped_lands(p) ==
  SortedSeq({ c \in battlefield(p) : is_land(cards[c].name) /\ ~cards[c].tapped })

\* tier1.py:494-498 and 509-512 and 526-527: may this land be tapped for attr
can_produce(c, attr) ==
  LET n == cards[c].name IN
  IF attr = "generic" THEN _get_land_mana(n) # "none"
  ELSE IF IsDual(n)
       THEN DUAL_LAND_COLORS(n)[1] = attr \/ DUAL_LAND_COLORS(n)[2] = attr
            \/ (attr = "black" /\ urborg_in_play)
       ELSE _get_land_mana(n) = attr \/ (attr = "black" /\ urborg_in_play)

\* tier1.py:489-501: one pass over a list of lands for one requirement
RECURSIVE TapPass(_, _, _, _)
TapPass(lands, attr, needed, tapped) ==
  IF lands = << >> \/ needed <= 0 THEN [tapped |-> tapped, needed |-> needed]
  ELSE LET c == Head(lands) IN
       IF c \notin tapped /\ can_produce(c, attr)
       THEN TapPass(Tail(lands), attr, needed - 1, tapped \cup {c})
       ELSE TapPass(Tail(lands), attr, needed, tapped)

\* tier1.py:485-518: the coloured pips, basics before duals
RECURSIVE TapColours(_, _, _, _, _)
TapColours(attrs, cost, basics, duals, tapped) ==
  LET a == Head(attrs)
      AfterDuals(d) ==
        IF d.needed > 0 THEN [ok |-> FALSE, tapped |-> {}]
        ELSE TapColours(Tail(attrs), cost, basics, duals, d.tapped)
      AfterBasics(b) ==
        IF b.needed > 0 THEN AfterDuals(TapPass(duals, a, b.needed, b.tapped))
        ELSE AfterDuals(b)
  IN IF attrs = << >> THEN [ok |-> TRUE, tapped |-> tapped]
     ELSE AfterBasics(TapPass(basics, a, cost[a], tapped))

\* A faulty auto-tap that leaves tapped the lands it chose for the coloured
\* pips when the generic part cannot be paid
auto_tap_as_it_goes(p, cost) ==
  LET basics == SelectSeq(untapped_lands(p), LAMBDA c : ~IsDual(cards[c].name))
      duals == SelectSeq(untapped_lands(p), LAMBDA c : IsDual(cards[c].name))
      AfterGeneric(gen) == [ok |-> gen.needed <= 0, tapped |-> gen.tapped]
      AfterColours(col) ==
        IF ~col.ok THEN [ok |-> FALSE, tapped |-> {}]
        ELSE AfterGeneric(TapPass(basics \o duals, "generic", cost.generic, col.tapped))
  IN AfterColours(TapColours(<< "black", "white", "blue", "red", "green" >>, cost,
                             basics, duals, {}))

\* tier1.py:457-538  auto_tap_lands: which lands it taps, and whether it succeeds
auto_tap_lands(p, cost) ==
  LET basics == SelectSeq(untapped_lands(p), LAMBDA c : ~IsDual(cards[c].name))
      duals == SelectSeq(untapped_lands(p), LAMBDA c : IsDual(cards[c].name))
      AfterGeneric(gen) ==
        IF gen.needed > 0 THEN [ok |-> FALSE, tapped |-> {}]
        ELSE [ok |-> TRUE, tapped |-> gen.tapped]
      AfterColours(col) ==
        IF ~col.ok THEN [ok |-> FALSE, tapped |-> {}]
        ELSE AfterGeneric(TapPass(basics \o duals, "generic", cost.generic, col.tapped))
  IN AfterColours(TapColours(<< "black", "white", "blue", "red", "green" >>, cost,
                             basics, duals, {}))

\* tier1.py:577-582: the first duals that make attr are used up (marked "none")
RECURSIVE UseDuals(_, _, _)
UseDuals(duals, attr, needed) ==
  LET d == Head(duals)
      Used(r) == [duals |-> << << "none", "none" >> >> \o r.duals, needed |-> r.needed]
      Kept(r) == [duals |-> << d >> \o r.duals, needed |-> r.needed]
  IN IF duals = << >> \/ needed <= 0 THEN [duals |-> duals, needed |-> needed]
     ELSE IF d[1] = attr \/ d[2] = attr
     THEN Used(UseDuals(Tail(duals), attr, needed - 1))
     ELSE Kept(UseDuals(Tail(duals), attr, needed))

\* tier1.py:568-585: the coloured pips, from basics and then from duals
RECURSIVE PayColours(_, _, _, _)
PayColours(attrs, cost, avail, duals) ==
  LET a == Head(attrs)
      from_basics == IF avail[a] < cost[a] THEN avail[a] ELSE cost[a]
      AfterDuals(u) ==
        IF u.needed > 0 THEN [ok |-> FALSE, avail |-> avail, duals |-> duals]
        ELSE PayColours(Tail(attrs), cost, [avail EXCEPT ![a] = @ - from_basics], u.duals)
  IN IF attrs = << >> THEN [ok |-> TRUE, avail |-> avail, duals |-> duals]
     ELSE IF cost[a] <= 0 THEN PayColours(Tail(attrs), cost, avail, duals)
     ELSE AfterDuals(UseDuals(duals, a, cost[a] - from_basics))

\* tier1.py:540-596  _can_pay_cost
_can_pay_cost(p, cost) ==
  LET mana(c) == _get_land_mana(cards[c].name)
      as_dual(c) == IsDual(cards[c].name)
                      \/ (urborg_in_play /\ mana(c) \notin {"black", "none"})
      dual_of(c) == IF IsDual(cards[c].name) THEN DUAL_LAND_COLORS(cards[c].name)
                    ELSE << mana(c), "black" >>
      Duals(ids) == [i \in 1..Len(ids) |-> dual_of(ids[i])]
      Enough(r) ==
        /\ r.ok
        /\ r.avail["black"] + r.avail["white"] + r.avail["blue"] + r.avail["red"]
             + r.avail["green"] + r.avail["colorless"]
             + Cardinality({ i \in 1..Len(r.duals) : r.duals[i][1] # "none" })
             >= cost.generic
      Lands(lands) ==
        Enough(PayColours(<< "black", "white", "blue", "red", "green" >>, cost,
                          [a \in Colors |->
                             Cardinality({ c \in Range(lands) : ~as_dual(c) /\ mana(c) = a })],
                          Duals(SelectSeq(lands, as_dual))))
  IN Lands(untapped_lands(p))

\* tier1.py:371-388  tap_land_for_mana, for each land auto_tap_lands chose: the pool after
PoolAfterTap(pool, tapped) ==
  [a \in Colors |-> pool[a] + Cardinality({ c \in tapped : _get_land_mana(cards[c].name) = a })]

\* state.py:105-113: generic from colourless, then black, red, green, white, blue
RECURSIVE PayGeneric(_, _, _)
PayGeneric(pool, order, generic) ==
  IF order = << >> \/ generic <= 0 THEN pool
  ELSE LET a == Head(order)
           take == IF pool[a] < generic THEN pool[a] ELSE generic
       IN PayGeneric([pool EXCEPT ![a] = @ - take], Tail(order), generic - take)

\* state.py:96-113  ManaPool.pay
pay(pool, cost) ==
  LET coloured == [a \in Colors |-> IF a = "colorless" THEN pool[a] ELSE pool[a] - cost[a]]
      take == IF coloured["colorless"] < cost.generic THEN coloured["colorless"]
              ELSE cost.generic
      afterC == [coloured EXCEPT !["colorless"] = @ - take]
  IN PayGeneric(afterC, << "black", "red", "green", "white", "blue" >>, cost.generic - take)

\* ---------------------------------------------------------------------------
\* State-based actions (state.py:297-359)
\* ---------------------------------------------------------------------------

\* state.py:309-331: how a creature on the battlefield dies, if it does
\* ("toughness", "damage", "deathtouch", or "no")
SbaDeath(cd) ==
  LET t == CardDef(cd.name).toughness + cd.counters.p1p1 - cd.counters.m1m1_temp
             + cd.counters.pump_toughness_temp
      indestructible == has_keyword(cd.name, "Indestructible")
  IN IF cd.zone # "battlefield" \/ ~is_creature(cd.name) THEN "no"
     ELSE IF t <= 0 THEN "toughness"
     ELSE IF cd.damage_marked >= t /\ ~indestructible THEN "damage"
     ELSE IF cd.counters.deathtouch_damage > 0 /\ ~indestructible THEN "deathtouch"
     ELSE "no"

\* state.py:345-357  the legend rule on the cards the deaths have left: of a
\* player's legendary cards of one name on its battlefield, all but the last
\* in the player's card list go to the graveyard
LegendRuleLoses(cs, c) ==
  /\ cs[c].zone = "battlefield"
  /\ is_legendary(cs[c].name)
  /\ \E d \in DOMAIN cs :
       /\ d > c
       /\ cs[d].owner = cs[c].owner
       /\ cs[d].name = cs[c].name
       /\ cs[d].zone = "battlefield"

\* A checker that notices a loss in one pass and ends the game in the next
sba_in_two_passes(pl, cs, over, win) ==
  [players |-> [p \in Players |-> [pl[p] EXCEPT !.has_lost = @ \/ pl[p].life <= 0]],
   cards |-> [c \in DOMAIN cs |->
                IF SbaDeath(cs[c]) = "no" THEN cs[c] ELSE [cs[c] EXCEPT !.zone = "graveyard"]],
   game_over |-> over \/ pl[1].has_lost \/ pl[2].has_lost,
   winner |-> IF over THEN win
              ELSE IF pl[1].has_lost THEN 2
              ELSE IF pl[2].has_lost THEN 1 ELSE win]

\* state.py:297-359  check_state_based_actions on the given players and cards.
\* The players are visited in order: the first one found to have lost ends the
\* game and names the other as winner. A creature that dies leaves (309-331),
\* then a saga with three lore counters (333-337), then the legend rule
\* (345-357). No scenario holds a planeswalker, so the loop at 339-345 finds
\* nothing.
check_state_based_actions(pl, cs, over, win) ==
  LET lost(p) == pl[p].has_lost \/ pl[p].life <= 0
      over1 == over \/ lost(1)
      win1 == IF lost(1) /\ ~over THEN Other(1) ELSE win
      over2 == over1 \/ lost(2)
      win2 == IF lost(2) /\ ~over1 THEN Other(2) ELSE win1
      deaths(cd) == CASE SbaDeath(cd) = "no" -> cd
                      [] SbaDeath(cd) = "deathtouch" ->
                           [cd EXCEPT !.zone = "graveyard",
                                      !.counters.deathtouch_damage = 0]
                      [] OTHER -> [cd EXCEPT !.zone = "graveyard"]
      saga(cd) == IF /\ cd.zone = "battlefield"
                     /\ is_saga(cd.name)
                     /\ cd.counters.lore >= 3
                  THEN [cd EXCEPT !.zone = "graveyard"]
                  ELSE cd
      sagas == [c \in DOMAIN cs |-> saga(deaths(cs[c]))]
  IN [players |-> [p \in Players |-> [pl[p] EXCEPT !.has_lost = lost(p)]],
      cards |-> [c \in DOMAIN cs |->
                   IF LegendRuleLoses(sagas, c)
                   THEN [sagas[c] EXCEPT !.zone = "graveyard"]
                   ELSE sagas[c]],
      game_over |-> over2,
      winner |-> win2]

\* ---------------------------------------------------------------------------
\* Stack items and actions
\* ---------------------------------------------------------------------------

\* state.py:219-232  StackItem. what: "spell", or the ability ("rack",
\* "evoke_sacrifice"); action_data of a spell is its targets and evoke choice.
StackItem(id, c, ctl, tg, ability, what, evoke) ==
  [id |-> id, source_card_id |-> c, source_card_name |-> cards[c].name,
   controller |-> ctl, targets |-> tg, is_ability |-> ability, what |-> what,
   evoke |-> evoke]

\* stack.py:53-63  the item put_spell_on_stack builds
SpellItem(id, p, c, tg) == StackItem(id, c, p, tg, FALSE, "spell", FALSE)

\* triggers.py:128-145  _the_rack_trigger: the item, or none
_the_rack_trigger(c) ==
  LET opponent == Other(cards[c].controller) IN
  IF active_player_index # opponent THEN << >>
  ELSE IF hand_size(opponent) >= 3 THEN << >>
  ELSE << [c |-> c, controller |-> cards[c].controller,
           targets |-> << PlayerTarget(opponent) >>, what |-> "rack"] >>

\* triggers.py:54-84  check_triggers(state, UPKEEP): the triggers of every
\* permanent, player by player, in card order
RECURSIVE TriggersOf(_)
TriggersOf(cs) ==
  IF cs = << >> THEN << >>
  ELSE (IF cards[Head(cs)].name = "The Rack" THEN _the_rack_trigger(Head(cs)) ELSE << >>)
         \o TriggersOf(Tail(cs))

check_triggers_upkeep ==
  TriggersOf(SortedSeq(battlefield(1)) \o SortedSeq(battlefield(2)))

\* Stack items with fresh ids for a list of triggers
RECURSIVE NumberItems(_, _)
NumberItems(ts, id) ==
  IF ts = << >> THEN << >>
  ELSE << StackItem(id, Head(ts).c, Head(ts).controller, Head(ts).targets, TRUE,
                    Head(ts).what, FALSE) >>
         \o NumberItems(Tail(ts), id + 1)

\* engine.py:452-489  _make_saga_trigger: what the item of a chapter says
ChapterName(chapter) ==
  CASE chapter = 1 -> "chapter I"
    [] chapter = 2 -> "chapter II"
    [] chapter = 3 -> "chapter III"
    [] OTHER -> "chapter"

\* engine.py:242-250: the sagas of the active player get a lore counter each,
\* in card order, and the trigger of the chapter reached goes on the stack
advance_sagas(cs) ==
  LET sagas == { c \in DOMAIN cs : /\ cs[c].owner = active_player_index
                                   /\ cs[c].zone = "battlefield"
                                   /\ is_saga(cs[c].name) }
      order == SortedSeq(sagas)
  IN [cards |-> [c \in DOMAIN cs |->
                   IF c \in sagas THEN [cs[c] EXCEPT !.counters.lore = @ + 1] ELSE cs[c]],
      items |-> [i \in 1..Len(order) |->
                   StackItem(next_id + i - 1, order[i], cs[order[i]].controller, << >>,
                             TRUE, ChapterName(cs[order[i]].counters.lore + 1), FALSE)]]

\* tier1.py:53-76  resolve_upkeep_triggers (no registry): the damage each
\* player takes from the Racks of the other, in either player's upkeep
UpkeepDamage(p) ==
  LET racks == { c \in battlefield(1) \cup battlefield(2) :
                   cards[c].name = "The Rack" /\ Other(cards[c].controller) = p }
  IN IF hand_size(p) < 3 THEN Cardinality(racks) * (3 - hand_size(p)) ELSE 0

\* ---------------------------------------------------------------------------
\* Legal actions (resolver/legal_actions.py)
\* ---------------------------------------------------------------------------

is_active(p) == active_player_index = p
is_main == phase \in {"main_1", "main_2"}
stack_empty == Len(stack) = 0

\* legal_actions.py:37-48
LegalLands(p) ==
  IF is_active(p) /\ is_main /\ stack_empty /\ players[p].land_drops_remaining > 0
  THEN { c \in hand(p) : is_land(cards[c].name) }
  ELSE {}

\* legal_actions.py:55-86: may the card be cast now, and paid for
CanCast(p, c) ==
  LET n == cards[c].name
      sorcery_speed == is_sorcery(n) \/ is_creature(n) \/ is_enchantment(n)
                         \/ is_artifact(n) \/ is_planeswalker(n)
      instant_speed == is_instant(n) \/ has_keyword(n, "Flash")
  IN /\ ~is_land(n)
     /\ instant_speed \/ (sorcery_speed /\ is_active(p) /\ is_main /\ stack_empty)
     /\ CardDef(n).hasCost => _can_pay_cost(p, CardDef(n).cost)

\* legal_actions.py:114-127 with 252-363 _enumerate_targeted_spell: the target
\* lists the card may be cast with. Only the names in TARGETED_REMOVAL
\* (helpers.py:23-29) are given targets; every other spell, Thoughtseize
\* included, is cast with none.
TargetChoices(p, c) ==
  LET n == cards[c].name
      opp == Other(p)
      creatures == { t \in battlefield(opp) : is_creature(cards[t].name) }
  IN CASE n = "Fatal Push" ->
            IF creatures # {} THEN { << CardTarget(t) >> : t \in creatures }
            ELSE { << >> }
       [] n = "Lightning Bolt" ->
            { << PlayerTarget(opp) >> }
              \cup { << CardTarget(t) >> :
                       t \in { t \in battlefield(1) \cup battlefield(2) :
                                 is_creature(cards[t].name)
                                   \/ is_planeswalker(cards[t].name) } }
       [] OTHER -> { << >> }

\* legal_actions.py:50-127  the cast actions
LegalCasts(p) ==
  { a \in [card : hand(p), targets : UNION { TargetChoices(p, c) : c \in hand(p) }] :
      CanCast(p, a.card) /\ a.targets \in TargetChoices(p, a.card) }

\* legal_actions.py:66-77  the evoke casts: the timing of the card allows a
\* cast and the evoke cost can be paid
LegalEvokes(p) ==
  { c \in hand(p) :
      LET n == cards[c].name
          sorcery_speed == is_sorcery(n) \/ is_creature(n) \/ is_enchantment(n)
                             \/ is_artifact(n) \/ is_planeswalker(n)
          instant_speed == is_instant(n) \/ has_keyword(n, "Flash")
      IN /\ ~is_land(n)
         /\ instant_speed \/ (sorcery_speed /\ is_active(p) /\ is_main /\ stack_empty)
         /\ EVOKE_COSTS(n) # NoCost
         /\ _can_pay_cost(p, EVOKE_COSTS(n)) }

\* legal_actions.py:238-248  the fetch-land activations
LegalFetches(p) ==
  { c \in battlefield(p) : FETCH_TARGETS(cards[c].name) # {} /\ ~cards[c].tapped }

\* legal_actions.py:199-204  the Ensnaring Bridges on the battlefield, and
\* bridge_hand_size: the smallest hand among their controllers (999 with none)
Bridges ==
  { b \in CardIds : cards[b].name = "Ensnaring Bridge" /\ cards[b].zone = "battlefield" }

bridge_hand_size ==
  IF Bridges = {} THEN 999
  ELSE Min({ hand_size(cards[b].controller) : b \in Bridges })

\* legal_actions.py:197-224  the attack actions
LegalAttacks(p) ==
  IF is_active(p) /\ phase = "declare_attackers"
  THEN { c \in battlefield(p) :
           /\ _is_creature(c)
           /\ ~cards[c].tapped
           /\ c \notin Range(combat.attackers)
           /\ ~(cards[c].sick /\ ~has_keyword(cards[c].name, "Haste"))
           /\ _effective_power(cards[c]) <= bridge_hand_size }
  ELSE {}

\* tier1.py:333-367  get_legal_blocks: (blocker, attacker) pairs
LegalBlocks(p) ==
  { b \in (battlefield(p) \X Range(combat.attackers)) :
      /\ _is_creature(b[1])
      /\ ~cards[b[1]].tapped
      /\ \A i \in 1..Len(combat.blockers) : combat.blockers[i][1] # b[1]
      /\ cards[b[2]].owner = Other(p)
      /\ has_keyword(cards[b[2]].name, "Flying")
           => (has_keyword(cards[b[1]].name, "Flying")
                 \/ has_keyword(cards[b[1]].name, "Reach")) }

\* ---------------------------------------------------------------------------
\* Casting and resolving (resolver/stack.py, the templates, triggers.py)
\* ---------------------------------------------------------------------------

\* A faulty cast that pays with life and taps nothing
cast_for_life(p, c, tg) ==
  [ok |-> TRUE,
   players |-> [players EXCEPT ![p].life = @ - 1],
   cards |-> [cards EXCEPT ![c].zone = "stack"],
   stack |-> Append(stack, SpellItem(next_id, p, c, tg))]

\* stack.py:18-71  put_spell_on_stack for a card of the player's own: whether
\* it succeeds, and the players, cards and stack after
put_on_stack(p, c, tg, evoke) ==
  LET n == cards[c].name
      evoke_cost == IF EVOKE_COSTS(n) # NoCost THEN EVOKE_COSTS(n) ELSE CardDef(n).cost
      has_cost == IF evoke THEN TRUE ELSE CardDef(n).hasCost
      cost == IF evoke THEN evoke_cost ELSE CardDef(n).cost
      prowess(x) == /\ ~is_creature(n)
                    /\ x \in battlefield(p)
                    /\ is_creature(cards[x].name)
                    /\ has_keyword(cards[x].name, "Prowess")
      Paid(tap, pool) ==
        [ok |-> tap.ok,
         players |-> [players EXCEPT ![p].mana_pool = pool],
         cards |-> [x \in CardIds |->
                      IF x = c THEN [cards[x] EXCEPT !.zone = "stack"]
                      ELSE IF x \in tap.tapped THEN [cards[x] EXCEPT !.tapped = TRUE]
                      ELSE IF prowess(x)
                      THEN [cards[x] EXCEPT !.counters.pump_power_temp = @ + 1,
                                            !.counters.pump_toughness_temp = @ + 1]
                      ELSE cards[x]],
         stack |-> Append(stack, StackItem(next_id, c, p, tg, FALSE, "spell", evoke))]
      Tapped(tap) ==
        Paid(tap, pay(PoolAfterTap(players[p].mana_pool, tap.tapped), cost))
  IN IF has_cost THEN Tapped(auto_tap_lands(p, cost))
     ELSE Paid([ok |-> TRUE, tapped |-> {}], players[p].mana_pool)

\* stack.py:18-71  put_spell_on_stack for an action with no evoke choice
put_spell_on_stack(p, c, tg) == put_on_stack(p, c, tg, FALSE)

\* stack.py:175-195  _targets_invalid: no target is a player, and no target
\* card is on the battlefield or in a hand
_targets_invalid(targets) ==
  /\ targets # << >>
  /\ \A i \in 1..Len(targets) :
       /\ targets[i].kind # "player"
       /\ ~(\E c \in CardIds : c = targets[i].id /\ cards[c].zone \in {"battlefield", "hand"})

\* templates_eight_rack.py:46-84  _resolve_thoughtseize. choice is what the
\* controller's agent answers when the spell was cast with no target (NoCard:
\* nothing, and the card with the highest mana value is taken).
_resolve_thoughtseize(item, choice) ==
  LET p == item.controller
      opp == Other(p)
      nonlands == { t \in hand(opp) : ~is_land(cards[t].name) }
      best == Min({ t \in nonlands :
                      \A u \in nonlands : CardDef(cards[u].name).cmc <= CardDef(cards[t].name).cmc })
      target_id == IF item.targets # << >> THEN item.targets[1].id
                   ELSE IF choice # NoCard THEN choice
                   ELSE best
      discards == nonlands # {} /\ target_id \in hand(opp)
  IN [players |-> [players EXCEPT ![p].life = @ - 2],
      cards |-> IF discards THEN [cards EXCEPT ![target_id].zone = "graveyard"] ELSE cards,
      ok |-> TRUE,
      log |-> IF nonlands = {} THEN "hand is empty"
              ELSE IF discards THEN "discards" ELSE "no valid target"]

\* templates_removal.py:84-116  _resolve_lightning_bolt
_resolve_lightning_bolt(item) ==
  LET tg == item.targets
      to_player == tg # << >> /\ tg[1].kind = "player"
      to_card == /\ tg # << >>
                 /\ tg[1].kind = "card"
                 /\ tg[1].id \in CardIds
                 /\ cards[tg[1].id].zone = "battlefield"
      hit == IF to_player THEN tg[1].id ELSE Other(item.controller)
      t == tg[1].id
  IN IF to_card
     THEN [players |-> players,
           cards |-> [cards EXCEPT
                        ![t].damage_marked = @ + 3,
                        ![t].zone = IF cards[t].damage_marked + 3 >= CardDef(cards[t].name).toughness
                                    THEN "graveyard" ELSE @],
           ok |-> TRUE,
           log |-> "deals 3 to card"]
     ELSE [players |-> [players EXCEPT ![hit].life = @ - 3],
           cards |-> cards,
           ok |-> TRUE,
           log |-> "deals 3 to player"]

\* templates_removal.py:19-34  _resolve_fatal_push
_resolve_fatal_push(item) ==
  LET tg == item.targets
      t == tg[1].id
      Failure(msg) == [players |-> players, cards |-> cards, ok |-> FALSE, log |-> msg]
  IN IF tg = << >> THEN Failure("No target for Fatal Push")
     ELSE IF ~(/\ tg[1].kind = "card"
               /\ t \in CardIds
               /\ cards[t].zone = "battlefield"
               /\ is_creature(cards[t].name))
     THEN Failure("Invalid target for Fatal Push")
     ELSE IF CardDef(cards[t].name).cmc <= 2
     THEN [players |-> players, cards |-> [cards EXCEPT ![t].zone = "graveyard"],
           ok |-> TRUE, log |-> "Fatal Push destroys"]
     ELSE Failure("CMC too high for Fatal Push")

\* triggers.py:197-213  _resolve_the_rack
_resolve_the_rack(item) ==
  LET target == item.targets[1].id
      damage == 3 - hand_size(target)
  IN IF item.targets = << >> THEN [players |-> players, log |-> "no target"]
     ELSE IF hand_size(target) >= 3 THEN [players |-> players, log |-> "no damage"]
     ELSE [players |-> [players EXCEPT ![target].life = @ - damage], log |-> "deals damage"]

\* stack.py:387-429  _resolve_urzas_saga_search: the first artifact of mana
\* value 0 or 1 in the controller's library enters the battlefield (the
\* agents name no other); the shuffle that follows is of a list built for the
\* call (state.py:163-165), so the order of the library stays as it is
_resolve_urzas_saga_search(item) ==
  LET p == item.controller
      candidates == { c \in library(p) :
                        is_artifact(cards[c].name) /\ CardDef(cards[c].name).cmc <= 1 }
  IN [players |-> players,
      cards |-> IF candidates = {} THEN cards
                ELSE [cards EXCEPT ![Min(candidates)].zone = "battlefield",
                                   ![Min(candidates)].controller = p],
      ok |-> TRUE,
      log |-> IF candidates = {} THEN "no valid artifact found" ELSE "enters the battlefield"]

\* A triggered ability that does nothing when it resolves
ability_does_nothing(item) ==
  [players |-> players, cards |-> cards, ok |-> TRUE, log |-> "nothing"]

\* stack.py:197-246  _resolve_triggered_ability
_resolve_triggered_ability(item) ==
  LET Handled(r) == [players |-> r.players, cards |-> cards, ok |-> TRUE, log |-> r.log]
  IN CASE item.what = "evoke_sacrifice" ->
            [players |-> players,
             cards |-> IF cards[item.source_card_id].zone = "battlefield"
                       THEN [cards EXCEPT ![item.source_card_id].zone = "graveyard"]
                       ELSE cards,
             ok |-> TRUE,
             log |-> "evoke sacrifice"]
       [] item.what = "chapter III" /\ item.source_card_name = "Urza's Saga" ->
            _resolve_urzas_saga_search(item)
       [] item.what = "rack" /\ trigger_registry -> Handled(_resolve_the_rack(item))
       [] OTHER -> [players |-> players, cards |-> cards, ok |-> TRUE,
                    log |-> "triggered ability resolves"]

\* A resolution that takes the item off the stack and forgets its card
resolve_and_forget(choice) ==
  [players |-> players, cards |-> cards, stack |-> Front(stack), ok |-> TRUE,
   log |-> "forgotten"]

\* stack.py:73-173  resolve_top_of_stack on a stack that is not empty: the
\* players, cards and stack after, and what the result's message says
resolve_top_of_stack(choice) ==
  LET item == Top(stack)
      rest == Front(stack)
      c == item.source_card_id
      n == cards[c].name
      sacrifice == StackItem(next_id, c, item.controller, << >>, TRUE, "evoke_sacrifice", FALSE)
      Ability(r) ==
        [players |-> r.players, cards |-> r.cards, stack |-> rest, ok |-> r.ok,
         log |-> r.log]
      Spell(r) ==
        [players |-> r.players, cards |-> [r.cards EXCEPT ![c].zone = "graveyard"],
         stack |-> rest, ok |-> r.ok, log |-> r.log]
  IN IF item.is_ability THEN Ability(_resolve_triggered_ability(item))
     ELSE IF item.targets # << >> /\ _targets_invalid(item.targets)
     THEN [players |-> players, cards |-> [cards EXCEPT ![c].zone = "graveyard"],
           stack |-> rest, ok |-> TRUE, log |-> "fizzles"]
     ELSE IF is_instant(n) \/ is_sorcery(n)
     THEN Spell(CASE n = "Thoughtseize" -> _resolve_thoughtseize(item, choice)
                  [] n = "Lightning Bolt" -> _resolve_lightning_bolt(item)
                  [] n = "Fatal Push" -> _resolve_fatal_push(item)
                  [] OTHER -> [players |-> players, cards |-> cards, ok |-> TRUE,
                               log |-> "no template"])
     ELSE [players |-> players,
           cards |-> [cards EXCEPT ![c].zone = "battlefield",
                                   ![c].controller = item.controller,
                                   ![c].sick = IF is_creature(n) THEN TRUE ELSE @,
                                   ![c].counters.lore = IF is_saga(n) THEN 1 ELSE @],
           stack |-> IF item.evoke THEN Append(rest, sacrifice) ELSE rest,
           ok |-> TRUE,
           log |-> "enters the battlefield"]

\* A fetch that takes the first land of the library, whatever its name
fetch_any_land(p, c) ==
  LET found == { l \in library(p) : is_land(cards[l].name) }
  IN [players |-> [players EXCEPT ![p].life = @ - 1],
      cards |-> IF found = {} THEN [cards EXCEPT ![c].zone = "graveyard"]
                ELSE [cards EXCEPT ![c].zone = "graveyard",
                                   ![Min(found)].zone = "battlefield",
                                   ![Min(found)].controller = p]]

\* stack.py:302-354  _resolve_fetchland: the sacrifice, the life, and the first
\* library card a fetch can find
_resolve_fetchland(p, c) ==
  LET valid_land_names == UNION { BASIC_TYPE_LANDS(t) : t \in FETCH_TARGETS(cards[c].name) }
      found == { l \in library(p) : cards[l].name \in valid_land_names }
  IN [players |-> [players EXCEPT ![p].life = @ - 1],
      cards |-> IF found = {} THEN [cards EXCEPT ![c].zone = "graveyard"]
                ELSE [cards EXCEPT ![c].zone = "graveyard",
                                   ![Min(found)].zone = "battlefield",
                                   ![Min(found)].controller = p]]

\* tier1.py:104-132  _resolve_play_land, for a land in the player's hand
_resolve_play_land(p, c) ==
  [players |-> [players EXCEPT ![p].land_drops_remaining = @ - 1],
   cards |-> [cards EXCEPT ![c].zone = "battlefield", ![c].controller = p,
                           ![c].counters.lore = IF is_saga(cards[c].name) THEN 1 ELSE @]]

\* ---------------------------------------------------------------------------
\* Combat (resolver/tier1.py)
\* ---------------------------------------------------------------------------

\* tier1.py:146-173  _resolve_attack: does the declaration succeed
AttackOk(p, c) ==
  /\ c \in CardIds
  /\ cards[c].owner = p
  /\ ~cards[c].tapped
  /\ ~(cards[c].sick /\ ~has_keyword(cards[c].name, "Haste"))

\* tier1.py:146-173  _resolve_attack, when it succeeds
_resolve_attack(c) ==
  [cards |-> IF has_keyword(cards[c].name, "Vigilance") THEN cards
             ELSE [cards EXCEPT ![c].tapped = TRUE],
   combat |-> [combat EXCEPT !.attackers = Append(@, c)]]

\* tier1.py:175-208  _resolve_block, when it succeeds: the pair is recorded
_resolve_block(b, a) ==
  [combat EXCEPT !.blockers = Append(@, << b, a >>)]

\* A declaration that is left as the defending player made it
blocks_as_declared(cb) == cb

\* engine.py:435-450  _enforce_menace: a lone blocker of a menace attacker is removed
_enforce_menace(cb) ==
  LET alone(i) ==
        /\ has_keyword(cards[cb.blockers[i][2]].name, "Menace")
        /\ cards[cb.blockers[i][2]].owner = active_player_index
        /\ Cardinality({ j \in 1..Len(cb.blockers) :
                           cb.blockers[j][2] = cb.blockers[i][2] }) = 1
      keep == { i \in 1..Len(cb.blockers) : ~alone(i) }
      ks == SortedSeq(keep)
  IN [cb EXCEPT !.blockers = [k \in 1..Len(ks) |-> cb.blockers[ks[k]]]]

\* tier1.py:298-300: the blockers of an attacker that are still on the battlefield
BlockersOf(cs, a, dp) ==
  LET idx == SortedSeq({ i \in 1..Len(combat.blockers) :
                           /\ combat.blockers[i][2] = a
                           /\ cs[combat.blockers[i][1]].owner = dp
                           /\ cs[combat.blockers[i][1]].zone = "battlefield" })
  IN [k \in 1..Len(idx) |-> combat.blockers[idx[k]][1]]

\* tier1.py:309-318: an attacker's damage assigned along its blockers
RECURSIVE AssignDamage(_, _, _, _)
AssignDamage(cs, bs, remaining, deathtouch) ==
  IF bs = << >> THEN [cards |-> cs, remaining |-> remaining]
  ELSE LET b == Head(bs)
           room == _effective_toughness(cs[b]) - cs[b].damage_marked
           lethal == IF deathtouch THEN 1 ELSE IF room < 0 THEN 0 ELSE room
           dmg == IF remaining < lethal THEN remaining ELSE lethal
           cs1 == [cs EXCEPT ![b].damage_marked = @ + dmg,
                             ![b].counters.deathtouch_damage =
                               IF deathtouch /\ dmg > 0 THEN 1 ELSE @]
       IN AssignDamage(cs1, Tail(bs), remaining - dmg, deathtouch)

\* tier1.py:275-331  _deal_combat_damage
RECURSIVE _deal_combat_damage(_, _, _, _, _)
_deal_combat_damage(pl, cs, attackers, ap, dp) ==
  LET a == Head(attackers)
      n == cs[a].name
      power == _effective_power(cs[a])
      lifelink == has_keyword(n, "Lifelink")
      Rest(pl1, cs1) == _deal_combat_damage(pl1, cs1, Tail(attackers), ap, dp)
      Dealt(asg, trampled) ==
        Rest([pl EXCEPT ![dp].life = @ - trampled,
                        ![ap].life = @ + (IF lifelink
                                          THEN power - asg.remaining + trampled ELSE 0)],
             asg.cards)
      Blocked(asg) ==
        Dealt(asg, IF has_keyword(n, "Trample") /\ asg.remaining > 0
                   THEN asg.remaining ELSE 0)
      Fight(bs) ==
        IF bs = << >>
        THEN Rest([pl EXCEPT ![dp].life = @ - power,
                             ![ap].life = @ + (IF lifelink THEN power ELSE 0)], cs)
        ELSE Blocked(AssignDamage(cs, bs, power, has_keyword(n, "Deathtouch")))
  IN IF attackers = << >> THEN [players |-> pl, cards |-> cs]
     ELSE IF cs[a].zone # "battlefield" \/ power <= 0 THEN Rest(pl, cs)
     ELSE Fight(BlockersOf(cs, a, dp))

\* Blockers that strike back from wherever they are
RECURSIVE StrikeBackFromAnywhere(_, _, _, _, _)
StrikeBackFromAnywhere(pl, cs, pairs, ap, dp) ==
  IF pairs = << >> THEN [players |-> pl, cards |-> cs]
  ELSE StrikeBackFromAnywhere(
         pl,
         [cs EXCEPT ![Head(pairs)[2]].damage_marked = @ + _effective_power(cs[Head(pairs)[1]])],
         Tail(pairs), ap, dp)

\* tier1.py:256-271: the blockers strike back
RECURSIVE StrikeBack(_, _, _, _, _)
StrikeBack(pl, cs, pairs, ap, dp) ==
  IF pairs = << >> THEN [players |-> pl, cards |-> cs]
  ELSE LET b == Head(pairs)[1]
           a == Head(pairs)[2]
           power == _effective_power(cs[b])
           hits == /\ cs[b].owner = dp /\ cs[a].owner = ap
                   /\ cs[b].zone = "battlefield" /\ cs[a].zone = "battlefield"
                   /\ power > 0
           cs1 == [cs EXCEPT ![a].damage_marked = @ + power,
                             ![a].counters.deathtouch_damage =
                               IF has_keyword(cs[b].name, "Deathtouch") THEN 1 ELSE @]
           pl1 == IF has_keyword(cs[b].name, "Lifelink")
                  THEN [pl EXCEPT ![dp].life = @ + power] ELSE pl
       IN IF hits THEN StrikeBack(pl1, cs1, Tail(pairs), ap, dp)
          ELSE StrikeBack(pl, cs, Tail(pairs), ap, dp)

\* tier1.py:219-273  resolve_combat_damage: first strikers and the checker,
\* the others (and double strikers still there), then the blockers
resolve_combat_damage ==
  LET ap == active_player_index
      dp == Other(ap)
      fs(a) == has_keyword(cards[a].name, "First Strike")
                 \/ has_keyword(cards[a].name, "Double Strike")
      first_strikers == SelectSeq(combat.attackers, LAMBDA a : cards[a].owner = ap /\ fs(a))
      regular_attackers ==
        SelectSeq(combat.attackers, LAMBDA a : cards[a].owner = ap /\ ~fs(a))
      Struck(d, w) ==
        [players |-> d.players, cards |-> d.cards, game_over |-> w.game_over,
         winner |-> w.winner]
      Back(d, w) == Struck(StrikeBack(d.players, d.cards, combat.blockers, ap, dp), w)
      Regular(w) ==
        Back(_deal_combat_damage(
               w.players, w.cards,
               regular_attackers
                 \o SelectSeq(first_strikers,
                              LAMBDA a : has_keyword(cards[a].name, "Double Strike")
                                           /\ w.cards[a].zone = "battlefield"),
               ap, dp),
             w)
      First(d) == Regular(check_state_based_actions(d.players, d.cards, game_over, winner))
  IN IF first_strikers = << >>
     THEN Regular([players |-> players, cards |-> cards, game_over |-> game_over,
                   winner |-> winner])
     ELSE First(_deal_combat_damage(players, cards, first_strikers, ap, dp))

\* ---------------------------------------------------------------------------
\* The steps of a turn that ask no agent (resolver/tier1.py)
\* ---------------------------------------------------------------------------

\* tier1.py:26-42  resolve_untap_step (no card carries skip_untap)
resolve_untap_step ==
  [players |-> [players EXCEPT ![active_player_index].land_drops_remaining =
                                 players[active_player_index].land_drops_per_turn],
   cards |-> [c \in CardIds |->
                IF c \in battlefield(active_player_index)
                THEN [cards[c] EXCEPT !.tapped = FALSE,
                                      !.sick = IF is_creature(cards[c].name) THEN FALSE ELSE @]
                ELSE cards[c]]]

\* tier1.py:44-51  resolve_draw_step with state.py:186-198 PlayerState.draw
resolve_draw_step ==
  LET p == active_player_index IN
  IF turn_number = 1 /\ active_player_index = 1
  THEN [players |-> players, cards |-> cards, log |-> "skips draw"]
  ELSE IF library(p) = {}
  THEN [players |-> [players EXCEPT ![p].has_lost = TRUE], cards |-> cards,
        log |-> "library empty"]
  ELSE [players |-> players, cards |-> [cards EXCEPT ![library_top(p)].zone = "hand"],
        log |-> "draws a card"]

\* tier1.py:53-76  resolve_upkeep_triggers
resolve_upkeep_triggers ==
  [p \in Players |-> [players[p] EXCEPT !.life = @ - UpkeepDamage(p)]]

\* tier1.py:78-100  resolve_cleanup_step, discarding the set D that
\* discard_random picks
resolve_cleanup_step(D) ==
  [players |-> [p \in Players |-> [players[p] EXCEPT !.mana_pool = EmptyPool]],
   cards |-> [c \in CardIds |->
                IF c \in D THEN [cards[c] EXCEPT !.zone = "graveyard"]
                ELSE IF cards[c].zone = "battlefield"
                THEN [cards[c] EXCEPT !.damage_marked = 0,
                                      !.counters.animated = 0,
                                      !.counters.m1m1_temp = 0,
                                      !.counters.pump_power_temp = 0,
                                      !.counters.pump_toughness_temp = 0]
                ELSE cards[c]]]

\* tier1.py:83-86: the sets of cards a cleanup may discard
CleanupDiscards ==
  LET h == hand(active_player_index)
      over == IF Cardinality(h) > max_hand_size THEN Cardinality(h) - max_hand_size ELSE 0
  IN { D \in SUBSET h : Cardinality(D) = over }

\* ---------------------------------------------------------------------------
\* Scenarios
\* ---------------------------------------------------------------------------

\* A duel of burn: each player has a Mountain, a creature and a Lightning Bolt
\* (the fixtures of tests/test_rules_gaps.py); the second player has one card
\* left to draw, the first none.
BurnDuel ==
  << NewCard("Mountain", 1, "battlefield"),
     NewCard("Monastery Swiftspear", 1, "battlefield"),
     NewCard("Lightning Bolt", 1, "hand"),
     NewCard("Mountain", 2, "battlefield"),
     NewCard("Grizzly Bears", 2, "battlefield"),
     NewCard("Lightning Bolt", 2, "hand"),
     NewCard("Mountain", 2, "library") >>

\* Discard against a flash creature: the 8-Rack player holds Thoughtseize behind
\* a Swamp, a fetch land and The Rack; the opponent holds Aven Mindcensor
\* (tests/test_priority_saga.py) behind three Plains and two Grizzly Bears, and has
\* no library left.
RackDuel ==
  << NewCard("Swamp", 1, "battlefield"),
     NewCard("Bloodstained Mire", 1, "battlefield"),
     NewCard("The Rack", 1, "battlefield"),
     NewCard("Thoughtseize", 1, "hand"),
     NewCard("Swamp", 1, "library"),
     NewCard("Plains", 2, "battlefield"),
     NewCard("Plains", 2, "battlefield"),
     NewCard("Plains", 2, "battlefield"),
     NewCard("Grizzly Bears", 2, "battlefield"),
     NewCard("Grizzly Bears", 2, "battlefield"),
     NewCard("Aven Mindcensor", 2, "hand") >>

\* Late in a long game: The Rack faces a player with no hand, and each player
\* has one card left to draw, which no land is there to pay for.
LateGame ==
  << NewCard("The Rack", 1, "battlefield"),
     NewCard("Grizzly Bears", 1, "library"),
     NewCard("Grizzly Bears", 2, "library") >>

\* A saga and nothing to cast: the first player holds Urza's Saga
\* (tests/test_priority_saga.py), and each player has two cards left to draw,
\* which no land is there to pay for.
SagaDuel ==
  << NewCard("Urza's Saga", 1, "hand"),
     NewCard("Grizzly Bears", 1, "library"),
     NewCard("Grizzly Bears", 1, "library"),
     NewCard("Grizzly Bears", 2, "library"),
     NewCard("Grizzly Bears", 2, "library") >>

\* An Ensnaring Bridge (tests/test_rules_gaps.py) whose controller holds one
\* card, against Llanowar Elves and Grizzly Bears; each player has one card
\* left to draw, which no land is there to pay for.
BridgeDuel ==
  << NewCard("Llanowar Elves", 1, "battlefield"),
     NewCard("Grizzly Bears", 1, "battlefield"),
     NewCard("Grizzly Bears", 1, "library"),
     NewCard("Ensnaring Bridge", 2, "battlefield"),
     NewCard("Grizzly Bears", 2, "hand"),
     NewCard("Grizzly Bears", 2, "library") >>

\* The life totals the scenarios start from
BurnLife == 4
RackLife == 3

\* state.py:147 and engine.py:96  the life a player starts a game with
starting_life == 20

\* ---------------------------------------------------------------------------
\* History
\* ---------------------------------------------------------------------------

NoEvent ==
  [kind |-> "init", actor |-> NoPlayer, asked |-> FALSE, sba |-> FALSE,
   over0 |-> FALSE, due0 |-> FALSE, sba_due |-> FALSE, item |-> << >>, log |-> "",
   passes0 |-> 0, loop0 |-> 0, passers |-> {}, passers0 |-> {}, ok |-> TRUE,
   cost |-> NoCost, can_pay |-> TRUE, choice |-> NoCard, evoked |-> {}]

\* What a step of kind k records, before the step's own entries:
\*   actor    the player whose agent decided          asked   an agent was asked
\*   sba      the step ended with a run of the state-based-action checker
\*   over0    game_over before the step               item    the stack item resolved
\*   sba_due  a non-pass action of an agent has had no checker run yet (due0: before)
\*   passers  who has passed since the pass count was last zero (passers0: before)
\*   log      what the step's result says          ok      the result's success flag
\*   cost     the cost a payment was asked for        can_pay what _can_pay_cost said of it
\*   choice   the card id an agent answered a sub-choice with
\*   evoked   the cards that have entered the battlefield from a cast with evoke
Ev(k) ==
  [kind |-> k, actor |-> NoPlayer, asked |-> FALSE, sba |-> FALSE,
   over0 |-> game_over, due0 |-> last.sba_due, sba_due |-> last.sba_due,
   item |-> << >>, log |-> "", passes0 |-> consecutive_passes, loop0 |-> loop_i,
   passers |-> last.passers, passers0 |-> last.passers, ok |-> TRUE,
   cost |-> NoCost, can_pay |-> TRUE, choice |-> NoCard, evoked |-> last.evoked]

\* ---------------------------------------------------------------------------
\* Initial states
\* ---------------------------------------------------------------------------

\* engine.py:92-150 setup, state.py:242-254 and match/runner.py:128-141: the
\* state run_game is given. first is the seat on the play (run_match leaves the
\* first seat active or makes the second one active); the players alternate
\* turns from it, so the parity of the turn number tells whose turn it is.
Setup(deck, life, registry, turn, limit, first) ==
  /\ cards = deck
  /\ players = [p \in Players |-> NewPlayer(life)]
  /\ stack = << >>
  /\ combat = NoCombat
  /\ turn_number = turn
  /\ active_player_index = (IF turn % 2 = 1 THEN first ELSE Other(first))
  /\ priority_player_index = (IF turn % 2 = 1 THEN first ELSE Other(first))
  /\ phase = "untap"
  /\ spells_cast_this_turn = 0
  /\ game_over = FALSE
  /\ winner = NoPlayer
  /\ trigger_registry = registry
  /\ pc = "run_game"
  /\ phase_i = 1
  /\ consecutive_passes = 0
  /\ loop_i = 0
  /\ decl_i = 0
  /\ decl_n = 0
  /\ next_id = 1
  /\ junk_used = 0
  /\ junk_limit = limit
  /\ mulligans = 0
  /\ setup_i = 2
  /\ last = NoEvent

\* The duels from the first turn, with well-behaved agents in the first and
\* agents that may answer wrongly MaxJunk times in the others; the saga duel
\* with either seat on the play
InitDuel ==
  \/ Setup(BurnDuel, BurnLife, FALSE, 1, 0, 1)
  \/ \E first \in Players : Setup(SagaDuel, starting_life, TRUE, 1, MaxJunk, first)
  \/ Setup(BridgeDuel, starting_life, TRUE, 1, MaxJunk, 1)
  \/ \E registry \in BOOLEAN : Setup(RackDuel, RackLife, registry, 1, MaxJunk, 1)

\* The last two turns before the turn limit, with agents that may answer wrongly
\* any number of times
InitCeiling ==
  \E life \in { RackLife, starting_life } : Setup(LateGame, life, TRUE, MAX_TURNS - 1, -1, 1)

Init == InitDuel \/ InitCeiling

\* ---------------------------------------------------------------------------
\* run_game and _run_turn (engine.py:166-287)
\* ---------------------------------------------------------------------------

loop_vars == << consecutive_passes, loop_i >>
setup_vars == << mulligans, setup_i >>
decl_vars == << decl_i, decl_n >>
turn_vars == << turn_number, active_player_index >>
junk_vars == << junk_used, junk_limit >>
result_vars == << game_over, winner >>

\* engine.py:313 / 351 / 231 / 272: the state-based-action checker runs on the
\* players and cards a handler has produced
RunSBA(pl, cs) ==
  \E s \in { check_state_based_actions(pl, cs, game_over, winner) } :
    /\ players' = s.players
    /\ cards' = s.cards
    /\ game_over' = s.game_over
    /\ winner' = s.winner

\* engine.py:289-292: a priority loop begins
BeginLoop ==
  /\ pc' = "priority"
  /\ consecutive_passes' = 0
  /\ loop_i' = 0

\* engine.py:174-175: the while loop of run_game starts another turn
\* (engine.py:191-195: _run_turn resets the spell counter)
StartTurn ==
  /\ pc = "run_game"
  /\ ~game_over
  /\ turn_number <= MAX_TURNS
  /\ spells_cast_this_turn' = 0
  /\ phase_i' = 1
  /\ pc' = "phase"
  /\ last' = [Ev("StartTurn") EXCEPT !.passers = {}]
  /\ UNCHANGED << players, cards, stack, combat, turn_vars, priority_player_index,
                  phase, result_vars, trigger_registry, setup_vars, loop_vars, decl_vars,
                  next_id, junk_vars >>

\* engine.py:177-179: _run_turn has returned; the active player switches
EndTurn ==
  /\ pc = "phase"
  /\ game_over \/ phase_i > Len(PHASE_ORDER)
  /\ active_player_index' = Other(active_player_index)
  /\ turn_number' = turn_number + 1
  /\ pc' = "run_game"
  /\ last' = Ev("EndTurn")
  /\ UNCHANGED << players, cards, stack, combat, priority_player_index, phase,
                  spells_cast_this_turn, result_vars, trigger_registry, setup_vars, phase_i,
                  loop_vars, decl_vars, next_id, junk_vars >>

\* engine.py:182-189: the while loop is left; past the turn limit the game is
\* over with the winner left as it is
FinishGame ==
  /\ pc = "run_game"
  /\ game_over \/ turn_number > MAX_TURNS
  /\ game_over' = (game_over \/ turn_number > MAX_TURNS)
  /\ pc' = "done"
  /\ last' = [Ev("FinishGame") EXCEPT
                !.log = IF turn_number > MAX_TURNS THEN "turn limit reached" ELSE ""]
  /\ UNCHANGED << players, cards, stack, combat, turn_vars, priority_player_index,
                  phase, spells_cast_this_turn, winner, trigger_registry, setup_vars, phase_i,
                  loop_vars, decl_vars, next_id, junk_vars >>

\* A faulty phase loop that leaves out the phase after the one it enters
EnterPhaseSkipping(ph) ==
  /\ pc = "phase"
  /\ ~game_over
  /\ phase_i <= Len(PHASE_ORDER)
  /\ PHASE_ORDER[phase_i] = ph
  /\ phase' = ph
  /\ priority_player_index' = active_player_index
  /\ phase_i' = phase_i + 2

\* engine.py:197-202: the for loop of _run_turn enters the phase named ph
EnterPhase(ph) ==
  /\ pc = "phase"
  /\ ~game_over
  /\ phase_i <= Len(PHASE_ORDER)
  /\ PHASE_ORDER[phase_i] = ph
  /\ phase' = ph
  /\ priority_player_index' = active_player_index
  /\ phase_i' = phase_i + 1

\* engine.py:208-212
UntapStep ==
  /\ EnterPhase("untap")
  /\ players' = resolve_untap_step.players
  /\ cards' = resolve_untap_step.cards
  /\ last' = Ev("UntapStep")
  /\ UNCHANGED << stack, combat, turn_vars, spells_cast_this_turn, result_vars,
                  trigger_registry, setup_vars, pc, loop_vars, decl_vars, next_id, junk_vars >>

\* engine.py:214-235: with a registry the upkeep triggers go on the stack,
\* without one they resolve at once; then the checker runs, and the priority
\* loop unless the game is over
UpkeepStep ==
  /\ EnterPhase("upkeep")
  /\ \E items \in { IF trigger_registry THEN NumberItems(check_triggers_upkeep, next_id)
                                         ELSE << >> } :
       /\ stack' = stack \o items
       /\ next_id' = next_id + Len(items)
  /\ \E pl \in { IF trigger_registry THEN players ELSE resolve_upkeep_triggers } :
       RunSBA(pl, cards)
  /\ IF game_over' THEN UNCHANGED << pc, loop_vars >> ELSE BeginLoop
  /\ last' = [Ev("UpkeepStep") EXCEPT !.sba = TRUE, !.sba_due = FALSE, !.passers = {}]
  /\ UNCHANGED << combat, turn_vars, spells_cast_this_turn, trigger_registry, setup_vars,
                  decl_vars, junk_vars >>

\* engine.py:237-252: the draw, the lore counters and chapter triggers of the
\* active player's sagas, then the priority loop
DrawStep ==
  /\ EnterPhase("draw")
  /\ players' = resolve_draw_step.players
  /\ \E r \in { advance_sagas(resolve_draw_step.cards) } :
       /\ cards' = r.cards
       /\ stack' = stack \o r.items
       /\ next_id' = next_id + Len(r.items)
  /\ BeginLoop
  /\ last' = [Ev("DrawStep") EXCEPT !.log = resolve_draw_step.log, !.passers = {}]
  /\ UNCHANGED << combat, turn_vars, spells_cast_this_turn, result_vars,
                  trigger_registry, setup_vars, decl_vars, junk_vars >>

\* engine.py:254-255
MainPhase ==
  /\ EnterPhase("main_1") \/ EnterPhase("main_2")
  /\ BeginLoop
  /\ last' = [Ev("MainPhase") EXCEPT !.passers = {}]
  /\ UNCHANGED << players, cards, stack, combat, turn_vars, spells_cast_this_turn,
                  result_vars, trigger_registry, setup_vars, decl_vars, next_id, junk_vars >>

\* engine.py:257-259 and 277-279
CombatBoundary ==
  /\ EnterPhase("begin_combat") \/ EnterPhase("end_combat")
  /\ combat' = NoCombat
  /\ BeginLoop
  /\ last' = [Ev("CombatBoundary") EXCEPT !.passers = {}]
  /\ UNCHANGED << players, cards, stack, turn_vars, spells_cast_this_turn,
                  result_vars, trigger_registry, setup_vars, decl_vars, next_id, junk_vars >>

\* engine.py:281-282
EndStep ==
  /\ EnterPhase("end_step")
  /\ BeginLoop
  /\ last' = [Ev("EndStep") EXCEPT !.passers = {}]
  /\ UNCHANGED << players, cards, stack, combat, turn_vars, spells_cast_this_turn,
                  result_vars, trigger_registry, setup_vars, decl_vars, next_id, junk_vars >>

\* engine.py:268-275: combat damage and the checker, when there are attackers
CombatDamageStep ==
  /\ EnterPhase("combat_damage")
  /\ IF combat.attackers # << >>
     THEN /\ \E r \in { resolve_combat_damage } :
               \E s \in { check_state_based_actions(r.players, r.cards, r.game_over,
                                                    r.winner) } :
                 /\ players' = s.players
                 /\ cards' = s.cards
                 /\ game_over' = s.game_over
                 /\ winner' = s.winner
          /\ last' = [Ev("CombatDamageStep") EXCEPT !.sba = TRUE, !.sba_due = FALSE]
     ELSE /\ UNCHANGED << players, cards, result_vars >>
          /\ last' = Ev("CombatDamageStep")
  /\ UNCHANGED << stack, combat, turn_vars, spells_cast_this_turn, trigger_registry, setup_vars,
                  pc, loop_vars, decl_vars, next_id, junk_vars >>

\* engine.py:284-287
CleanupStep ==
  /\ EnterPhase("cleanup")
  /\ \E D \in CleanupDiscards :
       /\ players' = resolve_cleanup_step(D).players
       /\ cards' = resolve_cleanup_step(D).cards
  /\ last' = Ev("CleanupStep")
  /\ UNCHANGED << stack, combat, turn_vars, spells_cast_this_turn, result_vars,
                  trigger_registry, setup_vars, pc, loop_vars, decl_vars, next_id, junk_vars >>

\* ---------------------------------------------------------------------------
\* _priority_loop (engine.py:289-353)
\* ---------------------------------------------------------------------------

\* A faulty exit test that leaves on a double pass whatever is on the stack
ExitsOnPasses ==
  \/ loop_i >= max_actions
  \/ game_over
  \/ consecutive_passes >= 2

\* A faulty exit test with no limit on the iterations
ExitsUnbounded ==
  \/ game_over
  \/ consecutive_passes >= 2 /\ stack = << >>

\* A faulty resolution test that resolves after a single pass
ResolvesEarly ==
  /\ loop_i < max_actions
  /\ ~game_over
  /\ consecutive_passes >= 1
  /\ stack # << >>

\* A faulty test that keeps asking after the game is over
AsksWhenOver ==
  /\ loop_i < max_actions
  /\ consecutive_passes < 2

\* engine.py:294-296, 299, 320-322: the loop is left when its 200 iterations
\* are used up, when the game is over, or when both have passed and the stack
\* is empty
LoopExits ==
  \/ loop_i >= max_actions
  \/ game_over
  \/ consecutive_passes >= 2 /\ stack = << >>

\* engine.py:299-300: both have passed and something is on the stack
LoopResolves ==
  /\ loop_i < max_actions
  /\ ~game_over
  /\ consecutive_passes >= 2
  /\ stack # << >>

\* engine.py:324-331: the player with priority is asked (pass is always legal,
\* so the list of legal actions is never empty)
LoopAsks ==
  /\ loop_i < max_actions
  /\ ~game_over
  /\ consecutive_passes < 2

\* May an agent return one more action that cannot be carried out
JunkAllowed == junk_limit = -1 \/ junk_used < junk_limit

JunkCounted == IF junk_limit = -1 THEN junk_used ELSE junk_used + 1

\* The priority loop returns to the phase loop of _run_turn
LoopReturn ==
  /\ pc = "priority"
  /\ LoopExits
  /\ pc' = "phase"
  /\ last' = Ev("LoopReturn")
  /\ UNCHANGED << players, cards, stack, combat, turn_vars, priority_player_index,
                  phase, spells_cast_this_turn, result_vars, trigger_registry, setup_vars,
                  phase_i, loop_vars, decl_vars, next_id, junk_vars >>

\* templates_eight_rack.py:52, 63-66: the cards choose_discard_target is
\* offered when the item is a Thoughtseize cast with no target (none otherwise)
DiscardCandidates(item) ==
  { t \in hand(Other(item.controller)) :
      /\ ~item.is_ability
      /\ item.source_card_name = "Thoughtseize"
      /\ item.targets = << >>
      /\ ~is_land(cards[t].name) }

\* What the agent may answer the offer with: nothing, one of the cards offered,
\* or an id that was not offered (another card of that hand, or a card that is
\* in no hand: the spell itself)
DiscardAnswers(item) ==
  { NoCard } \cup
  IF DiscardCandidates(item) = {} THEN {}
  ELSE hand(Other(item.controller)) \cup { item.source_card_id }

\* engine.py:299-319: the top of the stack resolves with the agent of its
\* controller, the checker runs, priority goes back to the active player
ResolveTop ==
  /\ pc = "priority"
  /\ LoopResolves
  /\ \E choice \in DiscardAnswers(Top(stack)) :
       \E r \in { resolve_top_of_stack(choice) } :
          /\ RunSBA(r.players, r.cards)
          /\ stack' = r.stack
          /\ next_id' = next_id + (Len(r.stack) - Len(stack) + 1)
          /\ last' = [Ev("ResolveTop") EXCEPT
                        !.actor = Top(stack).controller,
                        !.asked = (choice # NoCard),
                        !.choice = choice,
                        !.item = << Top(stack) >>,
                        !.log = r.log,
                        !.ok = r.ok,
                        !.evoked = IF /\ ~Top(stack).is_ability
                                      /\ Top(stack).evoke
                                      /\ r.cards[Top(stack).source_card_id].zone = "battlefield"
                                   THEN @ \cup { Top(stack).source_card_id }
                                   ELSE @,
                        !.sba = TRUE, !.sba_due = FALSE, !.passers = {}]
  /\ priority_player_index' = active_player_index
  /\ consecutive_passes' = 0
  /\ loop_i' = loop_i + 1
  /\ UNCHANGED << combat, turn_vars, phase, spells_cast_this_turn, trigger_registry, setup_vars,
                  pc, phase_i, decl_vars, junk_vars >>

\* engine.py:335-338: the agent passes
Pass ==
  /\ pc = "priority"
  /\ LoopAsks
  /\ consecutive_passes' = consecutive_passes + 1
  /\ priority_player_index' = Other(priority_player_index)
  /\ loop_i' = loop_i + 1
  /\ last' = [Ev("Pass") EXCEPT !.actor = priority_player_index, !.asked = TRUE,
                                !.passers = @ \cup { priority_player_index }]
  /\ UNCHANGED << players, cards, stack, combat, turn_vars, phase,
                  spells_cast_this_turn, result_vars, trigger_registry, setup_vars, pc, phase_i,
                  decl_vars, next_id, junk_vars >>

\* core.py:37-54  can_resolve: is the action one of Tier 1 or Tier 2
can_resolve(type, n) ==
  \/ type \in { "play_land", "pass_priority", "discard", "attack", "block" }
  \/ type = "cast_spell" /\ HasTemplate(n)
  \/ type = "activate_ability" /\ (HasTemplate(n) \/ FETCH_TARGETS(n) # {})

\* The answer that is nothing the dispatch has a case for, accepted
resolved_anyway == [ok |-> TRUE, log |-> ""]

\* core.py:73-74  the result of resolve for an action type its dispatch has no
\* case for
cannot_resolve == [ok |-> FALSE, log |-> "Cannot resolve"]

\* The result of the answers that are not carried out
ResultOf(k) ==
  CASE k = "Concede" -> cannot_resolve
    [] k = "Junk" -> [ok |-> FALSE, log |-> ""]
    [] OTHER -> [ok |-> TRUE, log |-> ""]

\* engine.py:339-353: what every other answer of the agent has in common: the
\* pass count is cleared and the iteration is used
Acts(k) ==
  /\ pc = "priority"
  /\ LoopAsks
  /\ consecutive_passes' = 0
  /\ loop_i' = loop_i + 1
  /\ last' = [Ev(k) EXCEPT !.actor = priority_player_index, !.asked = TRUE,
                           !.ok = ResultOf(k).ok, !.log = ResultOf(k).log,
                           !.sba = TRUE, !.sba_due = FALSE, !.passers = {}]

\* PLAY_LAND (core.py:59-60), then the checker
PlayLand ==
  /\ Acts("PlayLand")
  /\ \E c \in LegalLands(priority_player_index) :
       \E r \in { _resolve_play_land(priority_player_index, c) } :
         RunSBA(r.players, r.cards)
  /\ UNCHANGED << stack, combat, turn_vars, priority_player_index, phase,
                  spells_cast_this_turn, trigger_registry, setup_vars, pc, phase_i, decl_vars,
                  next_id, junk_vars >>

\* CAST_SPELL (core.py:67-68), then the checker
Cast ==
  /\ Acts("Cast")
  /\ \E a \in LegalCasts(priority_player_index) :
       \E r \in { put_spell_on_stack(priority_player_index, a.card, a.targets) } :
          /\ r.ok
          /\ RunSBA(r.players, r.cards)
          /\ stack' = r.stack
  /\ spells_cast_this_turn' = spells_cast_this_turn + 1
  /\ next_id' = next_id + 1
  /\ UNCHANGED << combat, turn_vars, priority_player_index, phase, trigger_registry, setup_vars,
                  pc, phase_i, decl_vars, junk_vars >>

\* CAST_SPELL with the evoke choice (legal_actions.py:66-77, stack.py:25-32),
\* then the checker
Evoke ==
  /\ Acts("Evoke")
  /\ \E c \in LegalEvokes(priority_player_index) :
       \E r \in { put_on_stack(priority_player_index, c, << >>, TRUE) } :
          /\ r.ok
          /\ RunSBA(r.players, r.cards)
          /\ stack' = r.stack
  /\ spells_cast_this_turn' = spells_cast_this_turn + 1
  /\ next_id' = next_id + 1
  /\ UNCHANGED << combat, turn_vars, priority_player_index, phase, trigger_registry, setup_vars,
                  pc, phase_i, decl_vars, junk_vars >>

\* ACTIVATE_ABILITY of a fetch land (core.py:69-70, stack.py:254-256), then the checker
Activate ==
  /\ Acts("Activate")
  /\ \E c \in LegalFetches(priority_player_index) :
       \E r \in { _resolve_fetchland(priority_player_index, c) } :
         RunSBA(r.players, r.cards)
  /\ UNCHANGED << stack, combat, turn_vars, priority_player_index, phase,
                  spells_cast_this_turn, trigger_registry, setup_vars, pc, phase_i, decl_vars,
                  next_id, junk_vars >>

\* ATTACK during the priority loop of the declare-attackers step
\* (legal_actions.py:197-224, core.py:65-66), then the checker
LateAttack ==
  /\ Acts("LateAttack")
  /\ \E c \in LegalAttacks(priority_player_index) :
       \E r \in { _resolve_attack(c) } :
          /\ RunSBA(players, r.cards)
          /\ combat' = r.combat
  /\ UNCHANGED << stack, turn_vars, priority_player_index, phase,
                  spells_cast_this_turn, trigger_registry, setup_vars, pc, phase_i, decl_vars,
                  next_id, junk_vars >>

\* engine.py:331-340 with core.py:67-68: the agent's answer goes to the
\* resolver without being looked up in the legal list, and put_spell_on_stack
\* (stack.py:18-36) asks only that the player owns the card and can pay. The
\* targets an agent may write into a cast of a card in its hand: the offered
\* ones, and for Thoughtseize, whose template reads action.targets
\* (templates_eight_rack.py:46-62), a nonland card in the other player's hand.
AgentTargets(p, c) ==
  TargetChoices(p, c)
    \cup IF cards[c].name = "Thoughtseize"
         THEN { << CardTarget(t) >> : t \in { t \in hand(Other(p)) : ~is_land(cards[t].name) } }
         ELSE {}

\* The casts of a card in hand that the legal list does not hold
OffListCasts(p) ==
  { a \in [card : { c \in hand(p) : ~is_land(cards[c].name) },
           targets : UNION { AgentTargets(p, c) : c \in hand(p) }] :
      a.targets \in AgentTargets(p, a.card) /\ a \notin LegalCasts(p) }

\* CAST_SPELL with an answer that is not in the legal list (engine.py:331-353):
\* the resolver carries it out when the cost can be paid, then the checker runs
OffList ==
  /\ Acts("OffList")
  /\ JunkAllowed
  /\ junk_used' = JunkCounted
  /\ \E a \in OffListCasts(priority_player_index) :
       \E r \in { put_spell_on_stack(priority_player_index, a.card, a.targets) } :
          /\ r.ok
          /\ RunSBA(r.players, r.cards)
          /\ stack' = r.stack
  /\ spells_cast_this_turn' = spells_cast_this_turn + 1
  /\ next_id' = next_id + 1
  /\ UNCHANGED << combat, turn_vars, priority_player_index, phase, trigger_registry, setup_vars,
                  pc, phase_i, decl_vars, junk_limit >>

\* tier1.py:104-132  the land plays _resolve_play_land carries out that the
\* legal list does not hold: a land of the player's hand while a land drop is
\* left
OffListLands(p) ==
  { c \in hand(p) : /\ is_land(cards[c].name)
                    /\ players[p].land_drops_remaining > 0
                    /\ c \notin LegalLands(p) }

\* PLAY_LAND with an answer that is not in the legal list (engine.py:331-353,
\* core.py:59-60), then the checker
OffListLand ==
  /\ Acts("OffListLand")
  /\ JunkAllowed
  /\ junk_used' = JunkCounted
  /\ \E c \in OffListLands(priority_player_index) :
       \E r \in { _resolve_play_land(priority_player_index, c) } :
         RunSBA(r.players, r.cards)
  /\ UNCHANGED << stack, combat, turn_vars, priority_player_index, phase,
                  spells_cast_this_turn, trigger_registry, setup_vars, pc, phase_i, decl_vars,
                  next_id, junk_limit >>

\* CONCEDE (actions.py:22): no tier recognises it and no adjudicator is
\* configured, so _resolve_action hands it to resolve (engine.py:362-363), whose
\* dispatch has no case for it (core.py:73-74); then the checker runs
\* (engine.py:351)
Concede ==
  /\ Acts("Concede")
  /\ ~can_resolve("concede", "")
  /\ JunkAllowed
  /\ junk_used' = JunkCounted
  /\ RunSBA(players, cards)
  /\ UNCHANGED << stack, combat, turn_vars, priority_player_index, phase,
                  spells_cast_this_turn, trigger_registry, setup_vars, pc, phase_i, decl_vars,
                  next_id, junk_limit >>

\* An answer of a recognised type that cannot be carried out (a card the player
\* does not have): the result is a failure that changes nothing, and the
\* checker runs
Junk ==
  /\ Acts("Junk")
  /\ JunkAllowed
  /\ junk_used' = JunkCounted
  /\ RunSBA(players, cards)
  /\ UNCHANGED << stack, combat, turn_vars, priority_player_index, phase,
                  spells_cast_this_turn, trigger_registry, setup_vars, pc, phase_i, decl_vars,
                  next_id, junk_limit >>

\* ---------------------------------------------------------------------------
\* _declare_attackers and _declare_blockers (engine.py:365-433)
\* ---------------------------------------------------------------------------

\* legal_actions.py:197-224 at the moment the declare-attackers step begins
\* (its phase is already set)
AttackCandidates(p) ==
  { c \in battlefield(p) :
      /\ _is_creature(c)
      /\ ~cards[c].tapped
      /\ c \notin Range(combat.attackers)
      /\ ~(cards[c].sick /\ ~has_keyword(cards[c].name, "Haste"))
      /\ _effective_power(cards[c]) <= bridge_hand_size }

\* engine.py:265-266 with 365-374: the step begins; with nothing to attack
\* with, _declare_attackers returns at once
DeclareAttackersStep ==
  /\ EnterPhase("declare_attackers")
  /\ IF AttackCandidates(active_player_index) = {}
     THEN UNCHANGED << pc, decl_vars >>
     ELSE /\ pc' = "attackers"
          /\ decl_i' = 0
          /\ decl_n' = Cardinality(AttackCandidates(active_player_index)) + 1
  /\ last' = Ev("DeclareAttackersStep")
  /\ UNCHANGED << players, cards, stack, combat, turn_vars, spells_cast_this_turn,
                  result_vars, trigger_registry, setup_vars, loop_vars, next_id, junk_vars >>

\* engine.py:377-381: the active player's agent is asked for an attacker
AttackAsks ==
  /\ pc = "attackers"
  /\ decl_i < decl_n
  /\ AttackCandidates(active_player_index) # {}

\* engine.py:398-400: after the declarations, the priority loop if anyone attacks
AfterDeclare ==
  IF combat.attackers # << >>
  THEN BeginLoop
  ELSE pc' = "phase" /\ UNCHANGED loop_vars

\* engine.py:392-396: an attacker is declared; no checker runs
DeclareAttack ==
  /\ AttackAsks
  /\ \E c \in AttackCandidates(active_player_index) :
       /\ cards' = _resolve_attack(c).cards
       /\ combat' = _resolve_attack(c).combat
  /\ decl_i' = decl_i + 1
  /\ last' = [Ev("DeclareAttack") EXCEPT !.actor = active_player_index,
                                         !.asked = TRUE, !.sba_due = TRUE]
  /\ UNCHANGED << players, stack, turn_vars, priority_player_index, phase,
                  spells_cast_this_turn, result_vars, trigger_registry, setup_vars, pc, phase_i,
                  loop_vars, decl_n, next_id, junk_vars >>

\* tier1.py:146-173  the attackers _resolve_attack accepts that the list of
\* attacks does not hold: an untapped creature of the player that an
\* Ensnaring Bridge keeps off the list
OffListAttackers(p) ==
  { c \in battlefield(p) :
      /\ _is_creature(c)
      /\ AttackOk(p, c)
      /\ c \notin Range(combat.attackers)
      /\ c \notin AttackCandidates(p) }

\* engine.py:392-396: the agent answers ATTACK with a creature that is not in
\* the list it was given; the resolver declares it
DeclareOffList ==
  /\ AttackAsks
  /\ JunkAllowed
  /\ junk_used' = JunkCounted
  /\ \E c \in OffListAttackers(active_player_index) :
       /\ cards' = _resolve_attack(c).cards
       /\ combat' = _resolve_attack(c).combat
  /\ decl_i' = decl_i + 1
  /\ last' = [Ev("DeclareOffList") EXCEPT !.actor = active_player_index,
                                          !.asked = TRUE, !.sba_due = TRUE]
  /\ UNCHANGED << players, stack, turn_vars, priority_player_index, phase,
                  spells_cast_this_turn, result_vars, trigger_registry, setup_vars, pc, phase_i,
                  loop_vars, decl_n, next_id, junk_limit >>

\* engine.py:392-396: the agent answers with something the resolver refuses
DeclareJunk ==
  /\ AttackAsks
  /\ JunkAllowed
  /\ junk_used' = JunkCounted
  /\ decl_i' = decl_i + 1
  /\ last' = [Ev("DeclareJunk") EXCEPT !.actor = active_player_index,
                                       !.asked = TRUE, !.ok = FALSE, !.sba_due = TRUE]
  /\ UNCHANGED << players, cards, stack, combat, turn_vars, priority_player_index,
                  phase, spells_cast_this_turn, result_vars, trigger_registry, setup_vars, pc,
                  phase_i, loop_vars, decl_n, next_id, junk_limit >>

\* engine.py:389-390: the agent is done declaring
AttackersPass ==
  /\ AttackAsks
  /\ AfterDeclare
  /\ last' = [Ev("AttackersPass") EXCEPT !.actor = active_player_index,
                                         !.asked = TRUE, !.passers = {}]
  /\ UNCHANGED << players, cards, stack, combat, turn_vars, priority_player_index,
                  phase, spells_cast_this_turn, result_vars, trigger_registry, setup_vars,
                  phase_i, decl_vars, next_id, junk_vars >>

\* engine.py:377-381: the loop ends without asking (its rounds are used up, or
\* nothing is left to attack with)
AttackersDone ==
  /\ pc = "attackers"
  /\ ~AttackAsks
  /\ AfterDeclare
  /\ last' = [Ev("AttackersDone") EXCEPT !.passers = {}]
  /\ UNCHANGED << players, cards, stack, combat, turn_vars, priority_player_index,
                  phase, spells_cast_this_turn, result_vars, trigger_registry, setup_vars,
                  phase_i, decl_vars, next_id, junk_vars >>

\* engine.py:262-264 with 402-405: the step begins when someone attacks
DeclareBlockersStep ==
  /\ EnterPhase("declare_blockers")
  /\ IF combat.attackers = << >>
     THEN UNCHANGED << pc, decl_i >>
     ELSE pc' = "blockers" /\ decl_i' = 0
  /\ last' = Ev("DeclareBlockersStep")
  /\ UNCHANGED << players, cards, stack, combat, turn_vars, spells_cast_this_turn,
                  result_vars, trigger_registry, setup_vars, loop_vars, decl_n, next_id, junk_vars >>

\* engine.py:408-411: the defending player's agent is asked for a block
BlockAsks ==
  /\ pc = "blockers"
  /\ decl_i < max_block_rounds
  /\ LegalBlocks(Other(active_player_index)) # {}

\* engine.py:422-426: a block is declared; no checker runs
DeclareBlock ==
  /\ BlockAsks
  /\ \E b \in LegalBlocks(Other(active_player_index)) :
       combat' = _resolve_block(b[1], b[2])
  /\ decl_i' = decl_i + 1
  /\ last' = [Ev("DeclareBlock") EXCEPT !.actor = Other(active_player_index),
                                        !.asked = TRUE, !.sba_due = TRUE]
  /\ UNCHANGED << players, cards, stack, turn_vars, priority_player_index, phase,
                  spells_cast_this_turn, result_vars, trigger_registry, setup_vars, pc, phase_i,
                  loop_vars, decl_n, next_id, junk_vars >>

\* engine.py:428-433: menace is enforced and the priority loop runs
AfterBlocks ==
  /\ combat' = _enforce_menace(combat)
  /\ BeginLoop

\* engine.py:419-420: the agent is done declaring
BlockersPass ==
  /\ BlockAsks
  /\ AfterBlocks
  /\ last' = [Ev("BlockersPass") EXCEPT !.actor = Other(active_player_index),
                                        !.asked = TRUE, !.passers = {}]
  /\ UNCHANGED << players, cards, stack, turn_vars, priority_player_index, phase,
                  spells_cast_this_turn, result_vars, trigger_registry, setup_vars, phase_i,
                  decl_vars, next_id, junk_vars >>

\* engine.py:408-411: the loop ends without asking
BlockersDone ==
  /\ pc = "blockers"
  /\ ~BlockAsks
  /\ AfterBlocks
  /\ last' = [Ev("BlockersDone") EXCEPT !.passers = {}]
  /\ UNCHANGED << players, cards, stack, turn_vars, priority_player_index, phase,
                  spells_cast_this_turn, result_vars, trigger_registry, setup_vars, phase_i,
                  decl_vars, next_id, junk_vars >>

\* ---------------------------------------------------------------------------
\* The engine
\* ---------------------------------------------------------------------------

Next ==
  \/ StartTurn
  \/ EndTurn
  \/ FinishGame
  \/ UntapStep
  \/ UpkeepStep
  \/ DrawStep
  \/ MainPhase
  \/ CombatBoundary
  \/ EndStep
  \/ DeclareAttackersStep
  \/ DeclareAttack
  \/ DeclareOffList
  \/ DeclareJunk
  \/ AttackersPass
  \/ AttackersDone
  \/ DeclareBlockersStep
  \/ DeclareBlock
  \/ BlockersPass
  \/ BlockersDone
  \/ CombatDamageStep
  \/ CleanupStep
  \/ LoopReturn
  \/ ResolveTop
  \/ Pass
  \/ PlayLand
  \/ Cast
  \/ Activate
  \/ LateAttack
  \/ OffList
  \/ OffListLand
  \/ Concede
  \/ Junk

Spec == Init /\ [][Next]_vars

\* run_game is one sequential program and every call of an agent returns, so
\* the engine always takes its next step
FairSpec == Spec /\ WF_vars(Next)

\* ---------------------------------------------------------------------------
\* Boards: the resolver on states from the middle of a game
\* ---------------------------------------------------------------------------

\* The lands a board draws from: basics, two shock lands, a colourless land
\* and a fetch land
LandPool ==
  { "Swamp", "Plains", "Mountain", "Blood Crypt", "Sacred Foundry", "Mishra's Factory",
    "Bloodstained Mire" }

\* The rows of at most MaxLands lands
LandRows == UNION { [1..n -> LandPool] : n \in 0..MaxLands }

CreaturePool ==
  { "Grizzly Bears", "Aven Mindcensor", "Monastery Swiftspear", "Darksteel Colossus" }

\* The costs auto_tap_lands and _can_pay_cost are probed with
ProbeCosts ==
  { [NoCost EXCEPT !.white = w, !.black = b, !.red = r, !.generic = g] :
      w \in 0..1, b \in 0..1, r \in 0..1, g \in 0..MaxGeneric }

\* templates_removal.py:100  the damage of a Lightning Bolt
BoltDamage == 3

\* A row of cards of one owner in one zone
Row(names, o, z) == [i \in 1..Len(names) |-> NewCard(names[i], o, z)]

\* The permanents that change what lands make, on the second player's side
Hosers(moon, urborg) ==
  Row((IF moon THEN << "Blood Moon" >> ELSE << >>)
        \o (IF urborg THEN << "Urborg, Tomb of Yawgmoth" >> ELSE << >>), 2, "battlefield")

\* The first player's untapped lands, a spell in its hand or none, and the
\* hosers
ManaDeck(lands, spell, moon, urborg) ==
  Row(lands, 1, "battlefield") \o Row(spell, 1, "hand") \o Hosers(moon, urborg)

\* A creature of player o (a land: animated, stack.py:262-264) with the
\* counters Funeral Charm (templates_eight_rack.py:165-200) and prowess
\* (stack.py:42-51) leave
Creature(n, o, shrink, pumps, charms) ==
  [NewCard(n, o, "battlefield") EXCEPT
     !.counters.animated = IF is_land(n) THEN 1 ELSE 0,
     !.counters.m1m1_temp = shrink,
     !.counters.pump_power_temp = pumps + 2 * charms,
     !.counters.pump_toughness_temp = pumps - charms]

\* The first player with a Mountain, a Swamp and a removal spell against a
\* creature of the second player
FightDeck(spell, n, pumps) ==
  Row(<< "Mountain", "Swamp" >>, 1, "battlefield") \o Row(<< spell >>, 1, "hand")
    \o << Creature(n, 2, 0, pumps, 0) >>

\* Two copies of Urborg of the first player, one on the battlefield and one
\* in hand (in either order in its card list), and the second player's own
LegendDeck(first_zone, second_zone, other) ==
  << NewCard("Urborg, Tomb of Yawgmoth", 1, first_zone),
     NewCard("Urborg, Tomb of Yawgmoth", 1, second_zone) >>
    \o Row(IF other THEN << "Urborg, Tomb of Yawgmoth" >> ELSE << >>, 2, "battlefield")

\* The most cards in the library of a player who holds a fetch land
MaxLibrary == 2

\* The first player with an untapped Bloodstained Mire and a library
FetchDeck(lib) ==
  Row(<< "Bloodstained Mire" >>, 1, "battlefield") \o Row(lib, 1, "library")

\* Each player with Plains and a Solitude in hand (tests/test_rules_gaps.py:669-716)
EvokeDeck(a, b) ==
  Row([i \in 1..a |-> "Plains"], 1, "battlefield") \o Row(<< "Solitude" >>, 1, "hand")
    \o Row([i \in 1..b |-> "Plains"], 2, "battlefield") \o Row(<< "Solitude" >>, 2, "hand")

\* The first player with a Mountain, a Swamp and a spell against a Leyline of
\* the Void of the second player (tests/test_rules_gaps.py:326-358)
LeylineDeck(spell) ==
  Row(<< "Mountain", "Swamp" >>, 1, "battlefield") \o Row(<< spell >>, 1, "hand")
    \o Row(<< "Leyline of the Void" >>, 2, "battlefield")

\* The state at a point of the first main phase of the third turn: at the call
\* of a resolver function ("probe") or at the start of the priority loop
Board(deck, at) ==
  /\ cards = deck
  /\ players = [p \in Players |-> NewPlayer(starting_life)]
  /\ stack = << >>
  /\ combat = NoCombat
  /\ turn_number = 3
  /\ active_player_index = 1
  /\ priority_player_index = 1
  /\ phase = "main_1"
  /\ spells_cast_this_turn = 0
  /\ game_over = FALSE
  /\ winner = NoPlayer
  /\ trigger_registry = TRUE
  /\ pc = at
  /\ phase_i = 5
  /\ consecutive_passes = 0
  /\ loop_i = 0
  /\ decl_i = 0
  /\ decl_n = 0
  /\ next_id = 1
  /\ junk_used = 0
  /\ junk_limit = 0
  /\ mulligans = 0
  /\ setup_i = 2
  /\ last = NoEvent

\* Boards on which a resolver function is called by itself
ProbeBoards ==
  \/ \E lands \in LandRows, moon \in BOOLEAN, urborg \in BOOLEAN :
       Board(ManaDeck(lands, << >>, moon, urborg), "probe")
  \/ \E n \in CreaturePool \cup { "Mishra's Factory" }, o \in Players, shrink \in 0..MaxShrink, charms \in 0..1,
        damage \in { 0, BoltDamage } :
       Board(<< [Creature(n, o, shrink, 0, charms) EXCEPT !.damage_marked = damage] >>,
             "probe")

\* Boards on which the priority loop of the main phase runs
PlayBoards ==
  \/ \E lands \in LandRows, moon \in BOOLEAN, urborg \in BOOLEAN,
        spell \in { "Thoughtseize", "Lightning Bolt", "Fatal Push" } :
       Board(ManaDeck(lands, << spell >>, moon, urborg), "priority")
  \/ \E spell \in { "Lightning Bolt", "Fatal Push" }, n \in CreaturePool, pumps \in 0..MaxPump :
       /\ pumps > 0 => has_keyword(n, "Prowess")
       /\ Board(FightDeck(spell, n, pumps), "priority")
  \/ \E z \in { << "hand", "battlefield" >>, << "battlefield", "hand" >> }, other \in BOOLEAN :
       Board(LegendDeck(z[1], z[2], other), "priority")
  \/ \E lib \in UNION { [1..k -> { "Plains", "Swamp", "Mountain", "Blood Crypt" }] :
                          k \in 0..MaxLibrary } :
       Board(FetchDeck(lib), "priority")
  \/ \E a \in 0..MaxLands, b \in 0..MaxLands :
       Board(EvokeDeck(a, b), "priority")
  \/ \E spell \in { "Thoughtseize", "Lightning Bolt", "Fatal Push" } :
       Board(LeylineDeck(spell), "priority")

BoardInit == ProbeBoards \/ PlayBoards

\* tier1.py:457-538 with 371-388: auto_tap_lands is called for the first player
\* with a cost; the lands it chose are tapped for mana
PayCost ==
  /\ pc = "probe"
  /\ \E cost \in ProbeCosts :
       \E r \in { auto_tap_lands(1, cost) } :
          /\ cards' = [c \in CardIds |->
                         IF c \in r.tapped THEN [cards[c] EXCEPT !.tapped = TRUE]
                         ELSE cards[c]]
          /\ players' = [players EXCEPT
                           ![1].mana_pool = PoolAfterTap(players[1].mana_pool, r.tapped)]
          /\ last' = [Ev("PayCost") EXCEPT !.actor = 1, !.ok = r.ok, !.cost = cost,
                                           !.can_pay = _can_pay_cost(1, cost)]
  /\ pc' = "probed"
  /\ UNCHANGED << stack, combat, turn_vars, priority_player_index, phase,
                  spells_cast_this_turn, result_vars, trigger_registry, setup_vars, phase_i,
                  loop_vars, decl_vars, next_id, junk_vars >>

\* state.py:297-359: the state-based-action checker is called
SbaPass ==
  /\ pc = "probe"
  /\ RunSBA(players, cards)
  /\ pc' = "probed"
  /\ last' = [Ev("SbaPass") EXCEPT !.sba = TRUE]
  /\ UNCHANGED << stack, combat, turn_vars, priority_player_index, phase,
                  spells_cast_this_turn, trigger_registry, setup_vars, phase_i, loop_vars,
                  decl_vars, next_id, junk_vars >>

BoardNext ==
  \/ PayCost
  \/ SbaPass
  \/ Pass
  \/ PlayLand
  \/ Cast
  \/ Activate
  \/ Evoke
  \/ ResolveTop
  \/ LoopReturn

BoardSpec == BoardInit /\ [][BoardNext]_vars

\* ---------------------------------------------------------------------------
\* Combat boards: the declare-blockers and combat-damage steps
\* ---------------------------------------------------------------------------

\* The most creatures that attack, and the most the defending player controls
MaxAttackers == 2
MaxDefenders == 2

AttackPool ==
  << "Grizzly Bears", "Dauthi Voidwalker", "Boros Elite", "Fencing Ace",
     "Colossal Dreadmaw", "Mishra's Factory", "Darksteel Colossus" >>

BlockPool == << "Grizzly Bears", "Llanowar Elves", "Gifted Aetherborn" >>

\* The attacking sides: up to MaxAttackers different creatures of the pool, in
\* the pool's order
AttackRows ==
  { [k \in 1..Cardinality(I) |-> AttackPool[SortedSeq(I)[k]]] :
      I \in { J \in SUBSET (1..Len(AttackPool)) :
                Cardinality(J) >= 1 /\ Cardinality(J) <= MaxAttackers } }

\* The defending sides: up to MaxDefenders creatures of the pool, in the
\* pool's order
BlockRows ==
  { [k \in 1..Len(f) |-> BlockPool[f[k]]] :
      f \in { g \in UNION { [1..k -> 1..Len(BlockPool)] : k \in 0..MaxDefenders } :
                \A i \in 1..Len(g) : \A j \in 1..Len(g) : i < j => g[i] <= g[j] } }

\* tier1.py:146-176 _resolve_attack: the first player's attackers are tapped
\* and in combat; the second player's creatures are untapped
CombatDeck(atk, def) ==
  [i \in 1..Len(atk) |-> [Creature(atk[i], 1, 0, 0, 0) EXCEPT !.tapped = TRUE]]
    \o [i \in 1..Len(def) |-> Creature(def[i], 2, 0, 0, 0)]

\* The state when the declare-attackers step of the third turn has ended
\* with every creature of the first player attacking
CombatBoard(atk, def) ==
  /\ cards = CombatDeck(atk, def)
  /\ players = [p \in Players |-> NewPlayer(starting_life)]
  /\ stack = << >>
  /\ combat = [attackers |-> [i \in 1..Len(atk) |-> i], blockers |-> << >>]
  /\ turn_number = 3
  /\ active_player_index = 1
  /\ priority_player_index = 1
  /\ phase = "declare_attackers"
  /\ spells_cast_this_turn = 0
  /\ game_over = FALSE
  /\ winner = NoPlayer
  /\ trigger_registry = TRUE
  /\ pc = "phase"
  /\ phase_i = 7
  /\ consecutive_passes = 0
  /\ loop_i = 0
  /\ decl_i = 0
  /\ decl_n = 0
  /\ next_id = 1
  /\ junk_used = 0
  /\ junk_limit = 0
  /\ mulligans = 0
  /\ setup_i = 2
  /\ last = NoEvent

CombatInit ==
  \E atk \in AttackRows, def \in BlockRows : CombatBoard(atk, def)

CombatNext ==
  \/ DeclareBlockersStep
  \/ DeclareBlock
  \/ BlockersPass
  \/ BlockersDone
  \/ Pass
  \/ LoopReturn
  \/ CombatDamageStep

CombatSpec == CombatInit /\ [][CombatNext]_vars

\* One attacker and at most one creature to block it, and the turn played to
\* its cleanup step (engine.py:277-287)
DuelInit ==
  \E a \in 1..Len(AttackPool),
     def \in { << >> } \cup { << BlockPool[b] >> : b \in 1..Len(BlockPool) } :
    CombatBoard(<< AttackPool[a] >>, def)

TurnEndNext ==
  \/ CombatNext
  \/ CombatBoundary
  \/ MainPhase
  \/ EndStep
  \/ CleanupStep

TurnEndSpec == DuelInit /\ [][TurnEndNext]_vars

\* ---------------------------------------------------------------------------
\* setup_game: the opening hands and the mulligans (engine.py:119-155)
\* ---------------------------------------------------------------------------

\* engine.py:137  the cards of an opening hand
OpeningHand == 7

\* engine.py:139  the mulligans after which the hand is kept without asking
MaxMulligans == 3

\* The most cards in a deck
MaxDeck == 9

\* A deck of n cards, Swamps and Racks in turn
DeckOf(n) == [i \in 1..n |-> IF i % 2 = 1 THEN "Swamp" ELSE "The Rack"]

\* state.py:186-198  PlayerState.draw(n) on the cards cs: the first n cards of
\* the library in the order of the player's card list go to the hand; with
\* fewer than n the player is marked as having lost
draw(cs, p, n) ==
  LET lib == { c \in DOMAIN cs : cs[c].owner = p /\ cs[c].zone = "library" }
      order == SortedSeq(lib)
      drawn == { order[k] : k \in 1..(IF Len(order) < n THEN Len(order) ELSE n) }
  IN [cards |-> [c \in DOMAIN cs |->
                   IF c \in drawn THEN [cs[c] EXCEPT !.zone = "hand"] ELSE cs[c]],
      decked |-> Len(order) < n]

\* engine.py:92-117 create_player and engine.py:127: two players whose cards
\* are all in their libraries, in the order create_player's shuffle left them
SetupInit ==
  \E n1 \in (OpeningHand + 1)..MaxDeck, n2 \in (OpeningHand + 1)..MaxDeck :
    /\ cards = Row(DeckOf(n1), 1, "library") \o Row(DeckOf(n2), 2, "library")
    /\ players = [p \in Players |-> NewPlayer(starting_life)]
    /\ stack = << >>
    /\ combat = NoCombat
    /\ turn_number = 1
    /\ active_player_index = 1
    /\ priority_player_index = 1
    /\ phase = "untap"
    /\ spells_cast_this_turn = 0
    /\ game_over = FALSE
    /\ winner = NoPlayer
    /\ trigger_registry = TRUE
    /\ pc = "deal"
    /\ phase_i = 1
    /\ consecutive_passes = 0
    /\ loop_i = 0
    /\ decl_i = 0
    /\ decl_n = 0
    /\ next_id = 1
    /\ junk_used = 0
    /\ junk_limit = 0
    /\ mulligans = 0
    /\ setup_i = 1
    /\ last = NoEvent

game_vars ==
  << stack, combat, turn_vars, priority_player_index, phase, spells_cast_this_turn,
     result_vars, trigger_registry, phase_i, loop_vars, decl_vars, next_id, junk_vars >>

\* engine.py:134-137: every card of the player goes to the library,
\* random.shuffle is given player.library, which is a list built for the call
\* (state.py:163-165), so the order of the player's cards stays as it is; then
\* seven cards are drawn
DealHand ==
  /\ pc = "deal"
  /\ \E r \in { draw([c \in CardIds |->
                        IF cards[c].owner = setup_i
                        THEN [cards[c] EXCEPT !.zone = "library"] ELSE cards[c]],
                     setup_i, OpeningHand) } :
       /\ cards' = r.cards
       /\ players' = [players EXCEPT ![setup_i].has_lost = @ \/ r.decked]
  /\ pc' = "decide"
  /\ last' = [Ev("DealHand") EXCEPT !.actor = setup_i]
  /\ UNCHANGED << game_vars, setup_vars >>

\* engine.py:139, 153-154: the agent asks for a mulligan, which it is asked
\* about while it has taken fewer than three
TakeMulligan ==
  /\ pc = "decide"
  /\ mulligans < MaxMulligans
  /\ mulligans' = mulligans + 1
  /\ pc' = "deal"
  /\ last' = [Ev("TakeMulligan") EXCEPT !.actor = setup_i, !.asked = TRUE]
  /\ UNCHANGED << players, cards, game_vars, setup_i >>

\* engine.py:139-152: the hand is kept (after three mulligans without asking);
\* the cards the agent names to put back, one per mulligan, go to the library,
\* and the loop goes on to the second seat or setup_game returns
KeepHand ==
  /\ pc = "decide"
  /\ \E to_bottom \in { B \in SUBSET hand(setup_i) : Cardinality(B) = mulligans } :
       cards' = [c \in CardIds |->
                   IF c \in to_bottom THEN [cards[c] EXCEPT !.zone = "library"]
                   ELSE cards[c]]
  /\ IF setup_i = 1
     THEN setup_i' = 2 /\ mulligans' = 0 /\ pc' = "deal"
     ELSE pc' = "run_game" /\ UNCHANGED setup_vars
  /\ last' = [Ev("KeepHand") EXCEPT !.actor = setup_i, !.asked = (mulligans < MaxMulligans)]
  /\ UNCHANGED << players, game_vars >>

SetupNext ==
  \/ DealHand
  \/ TakeMulligan
  \/ KeepHand

SetupSpec == SetupInit /\ [][SetupNext]_vars

\* ---------------------------------------------------------------------------
\* Properties
\* ---------------------------------------------------------------------------

\* The stack items are numbered in the order they were pushed
PushOrder(s) == \A i \in 1..Len(s) : \A j \in 1..Len(s) : i < j => s[i].id < s[j].id

\* C1: the stack is strictly last-in-first-out. A step either leaves every item
\* where it is and puts new items on top only, or it is a resolution that
\* takes away exactly the top item, which is the item pushed last among those
\* on the stack; no item leaves the stack in any other way.
C1_StackIsLifo ==
  [][ /\ PushOrder(stack) /\ PushOrder(stack')
      /\ \/ /\ Len(stack') >= Len(stack)
            /\ SubSeq(stack', 1, Len(stack)) = stack
            /\ \A i \in Len(stack) + 1..Len(stack') :
                 \A j \in 1..Len(stack) : stack'[i].id > stack[j].id
         \/ /\ last'.kind = "ResolveTop"
            /\ Len(stack) >= 1
            /\ last'.item = << stack[Len(stack)] >>
            /\ \A j \in 1..Len(stack) : stack[j].id <= last'.item[1].id
            /\ Len(stack') >= Len(stack) - 1
            /\ SubSeq(stack', 1, Len(stack) - 1) = SubSeq(stack, 1, Len(stack) - 1)
    ]_vars

\* Spell B, cast after spell A, has resolved and A is still on the stack
C1_Witness ==
  /\ last.kind = "ResolveTop"
  /\ ~last.item[1].is_ability
  /\ stack # << >>
  /\ ~stack[Len(stack)].is_ability
  /\ stack[Len(stack)].id < last.item[1].id

\* What C2 says of one step of the priority loop, but for what a double pass
\* over a non-empty stack leads to: an item resolves only after both players
\* have passed in a row; the resolution takes exactly the top item and uses the
\* agent of its controller; afterwards the active player has priority and the
\* pass count is zero.
C2_Resolution ==
  last'.kind = "ResolveTop" =>
    /\ consecutive_passes >= 2
    /\ last.passers = Players
    /\ Len(stack) >= 1
    /\ last'.item = << stack[Len(stack)] >>
    /\ last'.actor = stack[Len(stack)].controller
    /\ Len(stack') >= Len(stack) - 1
    /\ SubSeq(stack', 1, Len(stack) - 1) = SubSeq(stack, 1, Len(stack) - 1)
    /\ priority_player_index' = active_player_index'
    /\ consecutive_passes' = 0

\* Both players have passed in a row in a priority loop with a non-empty stack
DoublePass ==
  /\ pc = "priority"
  /\ ~game_over
  /\ consecutive_passes >= 2
  /\ stack # << >>

C3_LoopReturns ==
  last.kind = "LoopReturn" =>
    /\ \/ last.passes0 >= 2 /\ last.passers0 = Players /\ stack = << >>
       \/ game_over
       \/ last.loop0 >= max_actions
    /\ ~game_over /\ last.loop0 < max_actions => stack = << >> /\ pc = "phase"

\* A loop in which something was cast and resolved has returned below the limit
C3_Witness ==
  /\ last.kind = "LoopReturn"
  /\ ~game_over
  /\ last.loop0 < max_actions
  /\ last.loop0 > 4
  /\ last.passes0 >= 2
  /\ stack = << >>

C5_AsStated ==
  [][ last'.kind = "Activate" =>
        /\ Len(stack') = Len(stack) + 1
        /\ SubSeq(stack', 1, Len(stack)) = stack
        /\ stack'[Len(stack')].is_ability
        /\ \A x \in CardIds :
             /\ cards[x].zone = "library" => cards'[x].zone = "library"
             /\ cards'[x].zone = "battlefield" => cards[x].zone = "battlefield"
    ]_vars

\* C6: every action other than a pass that an agent takes is followed by a run
\* of the state-based-action checker before any agent is asked again. So no
\* agent is asked while such an action is still waiting for that run.
C6_AsStated == last.asked => ~last.due0

\* The zone a card has to be in for the spell named n to target it
\* (legal_actions.py:259-270 and 333-352)
TargetableZone(n) == IF n = "Thoughtseize" THEN "hand" ELSE "battlefield"

\* The item was cast with a target, and no target of it is still in the zone
\* where it could be targeted
AllTargetsGone(item) ==
  /\ ~item.is_ability
  /\ item.targets # << >>
  /\ \A i \in 1..Len(item.targets) :
       /\ item.targets[i].kind = "card"
       /\ cards[item.targets[i].id].zone # TargetableZone(item.source_card_name)

\* C7: a spell cast with a target, none of whose targets is still where it
\* could be targeted when the spell comes to resolve, has no effect at all: no
\* life total, counter, damage or zone of another card changes, the spell card
\* goes to the graveyard, and the log records the fizzle. A spell that targets
\* a player never fizzles.
C7_AsStated ==
  [][ last'.kind = "ResolveTop" =>
        /\ AllTargetsGone(stack[Len(stack)]) =>
             /\ last'.log = "fizzles"
             /\ players' = players
             /\ \A x \in CardIds :
                  IF x = stack[Len(stack)].source_card_id
                  THEN cards'[x].zone = "graveyard"
                  ELSE cards'[x] = cards[x]
        /\ (/\ ~stack[Len(stack)].is_ability
            /\ \E i \in 1..Len(stack[Len(stack)].targets) :
                 stack[Len(stack)].targets[i].kind = "player")
             => last'.log # "fizzles"
    ]_vars

\* The steps that enter a phase
PhaseSteps ==
  { "UntapStep", "UpkeepStep", "DrawStep", "MainPhase", "CombatBoundary",
    "DeclareAttackersStep", "DeclareBlockersStep", "CombatDamageStep", "EndStep",
    "CleanupStep" }

\* C9: once the state-based-action checker has set game_over, no agent is
\* asked for a decision, no stack item resolves and no phase is entered: the
\* only steps taken are the returns out of the loops of the engine.
C9_OverIsFinal ==
  last.over0 =>
    /\ ~last.asked
    /\ last.item = << >>
    /\ last.kind # "ResolveTop"
    /\ last.kind \notin PhaseSteps
    /\ last.kind \in { "LoopReturn", "EndTurn", "FinishGame" }

\* The game was over when the priority loop returned, with a spell left on the
\* stack that will never resolve
C9_Witness ==
  /\ last.kind = "LoopReturn"
  /\ last.over0
  /\ last.loop0 < max_actions
  /\ winner # NoPlayer
  /\ stack # << >>

\* C10: a draw from an empty library ends the game at once with that player
\* the loser: game_over is set before any agent is asked again, so it is set
\* when the priority loop of that draw step is about to begin.
C10_AsStated ==
  last.kind = "DrawStep" /\ last.log = "library empty" =>
    /\ game_over
    /\ winner = Other(active_player_index)

\* C8: run_game terminates whatever the agents answer, agents that never pass
\* or answer arbitrarily included: the engine reaches its end; every priority
\* loop makes at most 200 iterations; no turn after turn 50 is played and the
\* game is over when run_game ends; and a game that ends at the turn limit
\* with neither player having lost has no winner.
C8_Terminates ==
  /\ <>(pc = "done")
  /\ [](loop_i <= max_actions)
  /\ [](pc \notin { "run_game", "done" } => turn_number <= MAX_TURNS)
  /\ [](pc = "done" => game_over /\ turn_number <= MAX_TURNS + 1)
  /\ [](/\ pc = "done"
        /\ last.log = "turn limit reached"
        /\ \A p \in Players : ~players[p].has_lost
        => winner = NoPlayer)

\* run_game has ended at the turn limit as a draw, after agents that would not
\* pass had a priority loop run to its last iteration
C8_Witness ==
  /\ pc = "done"
  /\ game_over
  /\ last.log = "turn limit reached"
  /\ turn_number = MAX_TURNS + 1
  /\ \A p \in Players : ~players[p].has_lost
  /\ winner = NoPlayer
  /\ loop_i = max_actions

\* The order of the phases of a turn as C11 gives it
TurnOrder ==
  << "untap", "upkeep", "draw", "main_1", "begin_combat", "declare_attackers",
     "declare_blockers", "combat_damage", "end_combat", "main_2", "end_step",
     "cleanup" >>

\* C11: every turn goes through the phases in the order untap, upkeep, draw,
\* main 1, begin combat, declare attackers, declare blockers, combat damage,
\* end combat, main 2, end step, cleanup: the first phase entered in a turn is
\* untap, every other phase entered is the one that follows the phase before
\* it, the phase changes in no other way, a turn ends only after its cleanup
\* unless the game is over, and the step after a cleanup ends the turn and
\* makes the other player the active player.
C11_PhaseOrder ==
  [][ /\ last'.kind \in PhaseSteps =>
           IF last.kind = "StartTurn" THEN phase' = "untap"
           ELSE \E i \in 1..Len(TurnOrder) - 1 :
                  phase = TurnOrder[i] /\ phase' = TurnOrder[i + 1]
      /\ last'.kind \notin PhaseSteps => phase' = phase
      /\ last.kind = "StartTurn" => last'.kind = "UntapStep"
      /\ last'.kind = "StartTurn" => last.kind \in { "init", "EndTurn" }
      /\ last'.kind = "EndTurn" => game_over \/ last.kind = "CleanupStep"
      /\ active_player_index' # active_player_index => last'.kind = "EndTurn"
      /\ last.kind = "CleanupStep" =>
           /\ phase = "cleanup"
           /\ last'.kind = "EndTurn"
           /\ active_player_index' = Other(active_player_index)
    ]_vars

\* A whole turn with an attack and a block in it has ended after its cleanup,
\* and the second player is the active player of turn 2
C11_Witness ==
  /\ last.kind = "EndTurn"
  /\ ~game_over
  /\ phase = "cleanup"
  /\ turn_number = 2
  /\ active_player_index = 2
  /\ \E c \in CardIds : cards[c].zone = "graveyard" /\ is_creature(cards[c].name)

\* The number of mana symbols of a cost
TotalPips(cost) ==
  cost.white + cost.blue + cost.black + cost.red + cost.green + cost.generic

C13_AsStated ==
  last.kind = "PayCost" => (last.can_pay <=> last.ok)


\* C14: each of the six amounts in every player's mana pool is a non-negative
\* integer, whatever lands were tapped and costs paid.
C14_AsStated ==
  \A p \in Players : \A a \in Colors : players[p].mana_pool[a] >= 0


\* The colours a land may pay for by the rule the claim gives: under Blood
\* Moon a nonbasic land makes red only, otherwise a land makes the colours
\* printed on it, and with Urborg on the battlefield any land makes black too
ActuallyProduces(c, a) ==
  LET n == cards[c].name
      basic == n \in {"Swamp", "Plains", "Mountain", "Island", "Forest"}
      printed == CASE IsDual(n) -> { DUAL_LAND_COLORS(n)[1], DUAL_LAND_COLORS(n)[2] }
                   [] n \in {"Swamp", "Urborg, Tomb of Yawgmoth"} -> {"black"}
                   [] n = "Plains" -> {"white"}
                   [] n = "Mountain" -> {"red"}
                   [] n = "Island" -> {"blue"}
                   [] n = "Forest" -> {"green"}
                   [] OTHER -> {}
  IN \/ a = "black" /\ urborg_in_play
     \/ IF blood_moon_in_play /\ ~basic THEN a = "red" ELSE a \in printed

\* C15: when _can_pay_cost or auto_tap_lands accepts a cost, the player has,
\* for each colour, at least as many untapped lands that can actually produce
\* that colour as the cost has pips of it.
C15_AsStated ==
  [][ last'.kind = "PayCost" /\ (last'.ok \/ last'.can_pay) =>
        \A a \in { "white", "blue", "black", "red", "green" } :
          last'.cost[a] <= Cardinality({ c \in Range(untapped_lands(1)) :
                                           ActuallyProduces(c, a) })
    ]_vars


\* C16: after a pass of the state-based-action checker no creature with
\* effective toughness 0 or less is on the battlefield, indestructible or not.
C16_AsStated ==
  last.sba =>
    \A c \in CardIds :
      cards[c].zone = "battlefield" /\ _is_creature(c)
        => _effective_toughness(cards[c]) > 0

\* What the checker does ensure: no card that is a creature by its definition
\* stays on the battlefield with toughness 0 or less, and an indestructible
\* one whose toughness is above 0 stays whatever damage is marked on it.
SbaClearsCreatureCards ==
  [][ last'.sba =>
        /\ \A c \in CardIds :
             cards'[c].zone = "battlefield" /\ is_creature(cards'[c].name)
               => _effective_toughness(cards'[c]) > 0
        /\ last'.kind = "SbaPass" =>
             \A c \in CardIds :
               (/\ cards[c].zone = "battlefield"
                /\ has_keyword(cards[c].name, "Indestructible")
                /\ _effective_toughness(cards[c]) > 0)
                 => cards'[c].zone = "battlefield"
    ]_vars


\* C17: a creature that a Lightning Bolt takes off the battlefield has at
\* least as much damage marked on it as its effective toughness: damage below
\* the effective toughness, with no deathtouch, leaves it on the battlefield.
C17_AsStated ==
  [][ \A c \in CardIds :
        (/\ last'.kind = "ResolveTop"
         /\ last'.item[1].source_card_name = "Lightning Bolt"
         /\ cards[c].zone = "battlefield"
         /\ _is_creature(c)
         /\ cards[c].counters.deathtouch_damage = 0
         /\ cards'[c].zone # "battlefield")
          => cards'[c].damage_marked >= _effective_toughness(cards'[c])
    ]_vars


\* C18: after a pass of the state-based-action checker a player has at most
\* one legendary permanent of a name on its battlefield, the copy that
\* remains is the one that entered most recently (so a legendary land that
\* has just been played stays), and a copy is removed only when its owner
\* has another of the same name.
C18_AsStated ==
  [][ last'.sba =>
        /\ \A c, d \in CardIds :
             (/\ c # d
              /\ cards'[c].zone = "battlefield"
              /\ cards'[d].zone = "battlefield"
              /\ cards'[c].owner = cards'[d].owner
              /\ cards'[c].name = cards'[d].name)
               => ~is_legendary(cards'[c].name)
        /\ last'.kind = "PlayLand" =>
             \A c \in CardIds :
               cards[c].zone = "hand" /\ cards'[c].zone # "hand"
                 => cards'[c].zone = "battlefield"
        /\ \A c \in CardIds :
             (/\ is_legendary(cards[c].name)
              /\ cards[c].zone = "battlefield"
              /\ cards'[c].zone # "battlefield")
               => \E d \in CardIds :
                    /\ d # c
                    /\ cards[d].owner = cards[c].owner
                    /\ cards[d].name = cards[c].name
                    /\ cards'[d].zone = "battlefield"
    ]_vars


\* C19: an answer of an agent that is not in the legal list it was offered is
\* rejected or ignored: it changes no part of the game state.
C19_AsStated ==
  [][ last'.kind = "OffList" =>
        /\ players' = players
        /\ cards' = cards
        /\ stack' = stack
        /\ combat' = combat
        /\ spells_cast_this_turn' = spells_cast_this_turn
    ]_vars


\* C20: when an operation of the resolver returns a failure result, the game
\* state is exactly what it was before the operation: players, cards, stack
\* and combat are unchanged.
C20_AsStated ==
  [][ ~last'.ok =>
        /\ players' = players
        /\ cards' = cards
        /\ stack' = stack
        /\ combat' = combat
    ]_vars


\* The step is an agent's action that neither tier recognises: a concession, or
\* the cast of a spell that has no template
Unrecognised ==
  \/ last'.kind = "Concede"
  \/ /\ last'.kind \in { "Cast", "OffList" }
     /\ ~can_resolve("cast_spell", cards[Top(stack').source_card_id].name)

C22_AsStated ==
  last.kind = "Concede" => game_over /\ winner = Other(last.actor)


\* The step resolves a Thoughtseize whose controller's agent answered the
\* offer of the opponent's nonland cards with an id that was not offered
AnswersOffOffer ==
  /\ last'.kind = "ResolveTop"
  /\ last'.choice # NoCard
  /\ last'.choice \notin DiscardCandidates(Top(stack))

\* C23 as the specification states it: when the agent answers a sub-choice with
\* an id that is not among the candidates offered, the effect happens as if
\* the first candidate had been chosen.
C23_AsStated ==
  [][ AnswersOffOffer =>
        cards'[Min(DiscardCandidates(Top(stack)))].zone = "graveyard" ]_vars


\* The life p loses in the step
LifeLost(p) == players[p].life - players'[p].life

\* C24: The Rack damages only the opponent of its controller and only in that
\* opponent's upkeep: the upkeep step takes no life from the player whose turn
\* it is not, a Rack ability that resolves does so in the upkeep of its target
\* and takes max(0, 3 - hand size) from the target alone, and an upkeep step
\* that deals the damage itself takes that amount per Rack from the active
\* player.
C24_AsStated ==
  [][ /\ last'.kind = "UpkeepStep" =>
           /\ LifeLost(Other(active_player_index)) = 0
           /\ ~trigger_registry =>
                LifeLost(active_player_index) = UpkeepDamage(active_player_index)
      /\ last'.kind = "ResolveTop" /\ Top(stack).what = "rack" =>
           \E t \in { Top(stack).targets[1].id } :
              /\ t = Other(Top(stack).controller)
              /\ t = active_player_index
              /\ phase = "upkeep"
              /\ LifeLost(t) = (IF hand_size(t) < 3 THEN 3 - hand_size(t) ELSE 0)
              /\ LifeLost(Other(t)) = 0 ]_vars


\* The blockers assigned to attacker a in the combat record cb
Assigned(cb, a) == { i \in 1..Len(cb.blockers) : cb.blockers[i][2] = a }

\* The step completes the declaration of blockers
DeclarationCompletes == last'.kind \in { "BlockersPass", "BlockersDone" }

\* C25: when the declaration of blockers is complete, and before any damage,
\* no attacker with menace has exactly one blocker assigned: the step that
\* completes the declaration removes the lone block of a menace attacker and
\* leaves every other assignment as it was, in its order, and it marks no
\* damage and changes no life.
C25_MenaceEnforced ==
  [][ DeclarationCompletes =>
        /\ \A a \in Range(combat'.attackers) :
             has_keyword(cards'[a].name, "Menace") => Cardinality(Assigned(combat', a)) # 1
        /\ combat'.attackers = combat.attackers
        /\ combat'.blockers =
             SelectSeq(combat.blockers,
                       LAMBDA b : ~(/\ has_keyword(cards[b[2]].name, "Menace")
                                    /\ Cardinality(Assigned(combat, b[2])) = 1))
        /\ cards' = cards
        /\ players' = players ]_vars

\* The one block declared was on a menace attacker and is gone, while the
\* attacker still attacks
C25_Witness ==
  /\ last.kind = "BlockersPass"
  /\ decl_i = 1
  /\ combat.blockers = << >>
  /\ \E a \in Range(combat.attackers) : has_keyword(cards[a].name, "Menace")
  /\ Len(combat.attackers) = 1


\* The power of the blockers at the positions I of the blocker list
RECURSIVE SumPower(_)
SumPower(I) ==
  IF I = {} THEN 0
  ELSE LET i == Min(I) IN _effective_power(cards[combat.blockers[i][1]]) + SumPower(I \ {i})

\* tier1.py:229-246: the cards after the first damage pass and its checker run
\* (the cards as they are when no attacker has first strike or double strike)
AfterFirstPass ==
  LET ap == active_player_index
      first_strikers ==
        SelectSeq(combat.attackers,
                  LAMBDA a : \/ has_keyword(cards[a].name, "First Strike")
                             \/ has_keyword(cards[a].name, "Double Strike"))
      d == _deal_combat_damage(players, cards, first_strikers, ap, Other(ap))
  IN IF first_strikers = << >> THEN cards
     ELSE check_state_based_actions(d.players, d.cards, game_over, winner).cards

\* Blocker b, which has neither first strike nor double strike, is destroyed
\* by the damage of the first pass
DiesInFirstPass(b) ==
  /\ cards[b].zone = "battlefield"
  /\ AfterFirstPass[b].zone = "graveyard"
  /\ ~has_keyword(cards[b].name, "First Strike")
  /\ ~has_keyword(cards[b].name, "Double Strike")

\* C26: a creature without first strike or double strike that the first damage
\* pass destroys deals no combat damage in that combat: the damage marked on
\* each attacker by the combat-damage step is the power of its blockers that
\* outlived the first pass, so an attacker all of whose blockers died in the
\* first pass takes no damage and no deathtouch mark.
C26_FirstStrikeKillsFirst ==
  [][ last'.kind = "CombatDamageStep" =>
        \A a \in Range(combat.attackers) :
          /\ (\E i \in Assigned(combat, a) : DiesInFirstPass(combat.blockers[i][1])) =>
               cards'[a].damage_marked - cards[a].damage_marked
                 = SumPower({ i \in Assigned(combat, a) :
                                /\ ~DiesInFirstPass(combat.blockers[i][1])
                                /\ AfterFirstPass[a].zone = "battlefield" })
          /\ (\A i \in Assigned(combat, a) : DiesInFirstPass(combat.blockers[i][1])) =>
               /\ cards'[a].damage_marked = cards[a].damage_marked
               /\ cards'[a].counters.deathtouch_damage = cards[a].counters.deathtouch_damage
    ]_vars

\* A 3-power first striker was blocked by a 2-toughness creature alone: the
\* blocker is in the graveyard and the attacker carries no damage
C26_Witness ==
  /\ last.kind = "CombatDamageStep"
  /\ Len(combat.blockers) = 1
  /\ \E a \in Range(combat.attackers), b \in CardIds :
       /\ combat.blockers[1] = << b, a >>
       /\ cards[a].name = "Boros Elite"
       /\ cards[b].name = "Grizzly Bears"
       /\ cards[b].zone = "graveyard"
       /\ cards[a].zone = "battlefield"
       /\ cards[a].damage_marked = 0


\* What is lethal to the creatures B together: their toughness beyond the
\* damage already marked
RECURSIVE SumRoom(_)
SumRoom(B) ==
  IF B = {} THEN 0
  ELSE LET b == Min(B)
           room == _effective_toughness(cards[b]) - cards[b].damage_marked
       IN (IF room < 0 THEN 0 ELSE room) + SumRoom(B \ {b})

\* The damage attacker a may deal to the defending player when blocked: with
\* trample its power beyond what is lethal to its blockers, without it none
TrampleExcess(a) ==
  LET lethal == SumRoom({ combat.blockers[i][1] : i \in Assigned(combat, a) })
      power == _effective_power(cards[a])
  IN IF has_keyword(cards[a].name, "Trample") /\ power > lethal THEN power - lethal ELSE 0

\* C27: an attacker that has a blocker assigned when the declaration of
\* blockers is complete damages the defending player only with trample, and
\* then by the excess beyond lethal damage to its blockers: when one creature
\* attacks and is blocked, the combat-damage step takes exactly that excess
\* from the defending player's life (nothing without trample).
C27_AsStated ==
  [][ /\ last'.kind = "CombatDamageStep"
      /\ Len(combat.attackers) = 1
      /\ Assigned(combat, combat.attackers[1]) # {}
      /\ \A i \in 1..Len(combat.blockers) : ~has_keyword(cards[combat.blockers[i][1]].name, "Lifelink")
      => LifeLost(Other(active_player_index)) = TrampleExcess(combat.attackers[1]) ]_vars


\* The fetch land the step activated: the permanent of the actor that the
\* step put into the graveyard
Fetched == { c \in LegalFetches(last'.actor) : cards'[c].zone = "graveyard" }

\* The lands a fetch land named n can find: those named for one of the basic
\* land types it searches for
Fetchable(n) == UNION { BASIC_TYPE_LANDS(t) : t \in FETCH_TARGETS(n) }

\* The cards the step moved from the actor's library to the battlefield
Arrived == { l \in library(last'.actor) : cards'[l].zone = "battlefield" }

\* What every activation of a fetch land does: its controller pays 1 life, the
\* fetch land goes to the graveyard, and nothing else changes but the cards
\* that arrive from the library under the controller's control
FetchFrame ==
  /\ LifeLost(last'.actor) = 1
  /\ players'[Other(last'.actor)] = players[Other(last'.actor)]
  /\ Cardinality(Fetched) = 1
  /\ \A l \in Arrived :
       /\ cards'[l] = [cards[l] EXCEPT !.zone = "battlefield", !.controller = last'.actor]
       /\ \E c \in Fetched : cards[l].name \in Fetchable(cards[c].name)
  /\ \A x \in CardIds \ (Fetched \cup Arrived) : cards'[x] = cards[x]
  /\ stack' = stack

C29_AsStated ==
  [][ last'.sba =>
        /\ \A c \in CardIds :
             /\ cards'[c].zone = "battlefield"
             /\ is_creature(cards'[c].name) \/ cards'[c].counters.animated > 0
             /\ ~has_keyword(cards'[c].name, "Indestructible")
             => /\ cards'[c].damage_marked < _effective_toughness(cards'[c])
                /\ cards'[c].counters.deathtouch_damage = 0
        /\ \A c \in CardIds :
             /\ cards[c].zone = "battlefield"
             /\ is_creature(cards[c].name)
             /\ has_keyword(cards[c].name, "Indestructible")
             /\ _effective_toughness(cards'[c]) > 0
             => cards'[c].zone = "battlefield" ]_vars


\* The game state the checker works on, as a record
SbaState == [players |-> players, cards |-> cards, game_over |-> game_over, winner |-> winner]

\* C30: the checker run that ends a resolution or a non-pass action of an
\* agent reaches a fixed point: one more run of check_state_based_actions on
\* the state it leaves changes nothing (every action the checker reports is a
\* change it makes, so it reports none).
C30_SbaFixedPoint ==
  last.sba /\ (last.kind = "ResolveTop" \/ last.asked) =>
    check_state_based_actions(players, cards, game_over, winner) = SbaState

\* The checker run after a resolution has ended the game: the resolved spell
\* took a player's last life and the checker recorded the loss and the winner
C30_Witness ==
  /\ last.kind = "ResolveTop"
  /\ last.sba
  /\ ~last.over0
  /\ game_over
  /\ \E p \in Players : players[p].has_lost /\ players[p].life <= 0 /\ winner = Other(p)


\* The spell items of the stack that refer to card c
SpellItemsOf(c) ==
  { i \in 1..Len(stack) : ~stack[i].is_ability /\ stack[i].source_card_id = c }

C32_AsStated ==
  /\ game_over /\ winner # NoPlayer =>
       /\ ~players[winner].has_lost
       /\ players[winner].life > 0
       /\ players[Other(winner)].has_lost
  /\ last.kind = "FinishGame" /\ ~last.over0 => winner = NoPlayer


\* The items on the stack that are the evoke sacrifice of card c
SacrificesOf(c) ==
  { i \in 1..Len(stack) : stack[i].is_ability /\ stack[i].what = "evoke_sacrifice"
                            /\ stack[i].source_card_id = c }

Sagas == { c \in CardIds : is_saga(cards[c].name) }

NewChapters(c) ==
  { i \in (Len(stack) + 1)..Len(stack') :
      /\ stack'[i].is_ability
      /\ stack'[i].source_card_id = c
      /\ stack'[i].what \in { ChapterName(n) : n \in 1..4 } }

\* What the claim says of every chapter but the first: a step changes a saga's
\* lore count by one at most; a step that brings the count to N puts the
\* trigger of chapter N, and no other, on the stack; the draw step of the
\* controller adds one to the count of a saga on the battlefield; a saga leaves
\* the battlefield for the graveyard only with a count of three or more
SagaRules(from) ==
  \A c \in Sagas :
    LET lore == cards[c].counters.lore
        lore2 == cards'[c].counters.lore
    IN /\ lore2 \in { lore, lore + 1 }
       /\ lore2 = lore => NewChapters(c) = {}
       /\ lore2 = lore + 1 /\ lore2 >= from =>
            /\ Cardinality(NewChapters(c)) = 1
            /\ \A i \in NewChapters(c) : stack'[i].what = ChapterName(lore2)
       /\ /\ last'.kind = "DrawStep"
          /\ cards[c].zone = "battlefield"
          /\ cards[c].controller = active_player_index
          => lore2 = lore + 1
       /\ cards[c].zone = "battlefield" /\ cards'[c].zone = "graveyard" => lore >= 3

\* C34: chapters I, II and III of a saga each trigger once and in order: the
\* trigger of chapter N goes on the stack in the step that brings the lore
\* count to N, the count rises by one in each draw step of the controller, and
\* the checker sacrifices the saga only at a count of three or more
C34_AsStated == [][SagaRules(1)]_vars

\* The same from chapter II on
LaterChapters == [][SagaRules(2)]_vars


\* The steps in which an agent's answer puts a land onto the battlefield as
\* the land play of the turn
LandPlayed == last'.kind \in { "PlayLand", "OffListLand" }

\* C35: a land is played only by the active player in a main phase on an empty
\* stack and while a land drop is left, which it uses up; the untap step gives
\* the active player its land_drops_per_turn back; and the count left is never
\* negative nor more than land_drops_per_turn, so a turn sees no more land
\* plays than that
C35_AsStated ==
  [][/\ LandPlayed =>
          /\ is_active(last'.actor)
          /\ is_main
          /\ stack_empty
          /\ players[last'.actor].land_drops_remaining > 0
          /\ players'[last'.actor].land_drops_remaining
               = players[last'.actor].land_drops_remaining - 1
     /\ last'.kind = "UntapStep" =>
          players'[active_player_index].land_drops_remaining
            = players[active_player_index].land_drops_per_turn
     /\ \A p \in Players :
          /\ players'[p].land_drops_remaining >= 0
          /\ players'[p].land_drops_remaining <= players'[p].land_drops_per_turn]_vars

\* The same of the land plays the legal list offers
LegalLandPlays ==
  [][/\ last'.kind = "PlayLand" =>
          /\ is_active(last'.actor)
          /\ is_main
          /\ stack_empty
          /\ players[last'.actor].land_drops_remaining > 0
     /\ LandPlayed =>
          players'[last'.actor].land_drops_remaining
            = players[last'.actor].land_drops_remaining - 1
     /\ last'.kind = "UntapStep" =>
          players'[active_player_index].land_drops_remaining
            = players[active_player_index].land_drops_per_turn
     /\ \A p \in Players :
          /\ players'[p].land_drops_remaining >= 0
          /\ players'[p].land_drops_remaining <= players'[p].land_drops_per_turn]_vars


\* The cards a step moves from the library of player p to its hand
Drawn(p) == { c \in library(p) : cards'[c].zone = "hand" }

\* C36: in the draw step of turn 1 the active player, which is the player on
\* the play, draws nothing; in the draw step of every other turn the active
\* player draws one card, the top of its library, unless the library is empty
C36_AsStated ==
  [][last'.kind = "DrawStep" =>
       /\ turn_number = 1 => Drawn(active_player_index) = {}
       /\ turn_number > 1 /\ library(active_player_index) # {} =>
            Drawn(active_player_index) = { library_top(active_player_index) }
       /\ Drawn(Other(active_player_index)) = {}]_vars

\* The same with the first seat on the play
FirstSeatSkipsDraw ==
  [][last'.kind = "DrawStep" =>
       /\ turn_number = 1 /\ active_player_index = 1 => Drawn(active_player_index) = {}
       /\ turn_number > 1 /\ library(active_player_index) # {} =>
            Drawn(active_player_index) = { library_top(active_player_index) }
       /\ Drawn(Other(active_player_index)) = {}]_vars


\* C37: when a cleanup step ends, the active player holds seven cards at most,
\* every permanent on the battlefield has no damage marked and none of the
\* marks that last until end of turn (temporary shrink, temporary pump,
\* animation, deathtouch damage), and both mana pools are empty
C37_AsStated ==
  last.kind = "CleanupStep" =>
    /\ hand_size(active_player_index) <= max_hand_size
    /\ \A c \in battlefield(1) \cup battlefield(2) :
         /\ cards[c].damage_marked = 0
         /\ cards[c].counters.m1m1_temp = 0
         /\ cards[c].counters.pump_power_temp = 0
         /\ cards[c].counters.pump_toughness_temp = 0
         /\ cards[c].counters.animated = 0
         /\ cards[c].counters.deathtouch_damage = 0
    /\ \A p \in Players : players[p].mana_pool = EmptyPool

\* The same without the deathtouch mark
CleanupClears ==
  last.kind = "CleanupStep" =>
    /\ hand_size(active_player_index) <= max_hand_size
    /\ \A c \in battlefield(1) \cup battlefield(2) :
         /\ cards[c].damage_marked = 0
         /\ cards[c].counters.m1m1_temp = 0
         /\ cards[c].counters.pump_power_temp = 0
         /\ cards[c].counters.pump_toughness_temp = 0
         /\ cards[c].counters.animated = 0
    /\ \A p \in Players : players[p].mana_pool = EmptyPool


\* The creatures a step adds to the declared attackers
NewAttackers == Range(combat'.attackers) \ Range(combat.attackers)

\* The creature's power is within the hand of every Bridge's controller
UnderEveryBridge(c) ==
  \A b \in Bridges : _effective_power(cards[c]) <= hand_size(cards[b].controller)

\* C38: a creature becomes a declared attacker only if, when it is declared,
\* its effective power is at most the hand size of the controller of every
\* Ensnaring Bridge on the battlefield
C38_AsStated == [][\A c \in NewAttackers : UnderEveryBridge(c)]_vars

\* The same of the attackers taken from the list of legal attacks
ListedAttackers ==
  [][last'.kind \in { "DeclareAttack", "LateAttack" } =>
       \A c \in NewAttackers : UnderEveryBridge(c)]_vars


\* state.py:284-295  graveyard_destination: where a card of the owner goes
\* when it would be put into a graveyard
graveyard_destination(card_owner_id) ==
  IF \E c \in battlefield(Other(card_owner_id)) : cards[c].name = "Leyline of the Void"
  THEN "exile"
  ELSE "graveyard"

\* C39: a card is put into a graveyard only when graveyard_destination says so
\* for its owner: while a player controls Leyline of the Void no card of the
\* other player is put into a graveyard, and the Leyline player's own cards
\* still are
C39_AsStated ==
  [][\A c \in CardIds :
       cards[c].zone # "graveyard" /\ cards'[c].zone = "graveyard" =>
         graveyard_destination(cards[c].owner) = "graveyard"]_vars


\* C40: no player takes more than three mulligans, and the deal after a
\* mulligan can give a hand other than the one the player has just given up
\* (the hand of a deck of more than seven cards is not forced to be the same
\* seven cards)
C40_AsStated ==
  /\ mulligans <= MaxMulligans
  /\ /\ pc = "deal"
     /\ mulligans > 0
     /\ Cardinality({ c \in CardIds : cards[c].owner = setup_i }) > OpeningHand
     => ENABLED (DealHand /\ hand(setup_i)' # hand(setup_i))

\* Every deal after a mulligan gives the hand the player has just given up,
\* and no player takes more than three mulligans
SameSevenAgain ==
  [][/\ mulligans' <= MaxMulligans
     /\ last'.kind = "DealHand" /\ mulligans > 0 => hand(setup_i)' = hand(setup_i)
     /\ last'.kind = "DealHand" => library(setup_i)' \cup hand(setup_i)'
                                     = { c \in CardIds : cards[c].owner = setup_i }]_vars

====
